---- MODULE Spec2Model ----
(***************************************************************************)
(* A model of pgexporter's configuration handling                          *)
(* (src/libpgexporter/configuration.c): loading a configuration file,      *)
(* validating it, reloading it into the running configuration              *)
(* (transfer_configuration) and changing one key at run time (conf set).   *)
(*                                                                         *)
(* Text that the code parses (numbers, endpoint lists) is a sequence of    *)
(* one-character strings; text that the code only copies and compares      *)
(* (names, hosts, paths) is a TLA+ string.  All texts of the model are     *)
(* shorter than MISC_LENGTH - 1, so the length clamps before each memcpy   *)
(* never cut anything.                                                     *)
(***************************************************************************)
EXTENDS Integers, Sequences, FiniteSets, TLC

VARIABLES
    phase,    \* "boot" (before the load), "running", "exited" (exit() was called)
    config,   \* the running configuration (struct configuration in shmem)
    last,     \* what the last operation was, what it was given and what it returned
    ops,      \* the number of management requests handled since the start
    xfer,     \* position of a transfer_configuration that runs step by step (SpecRace)
    view,     \* what a concurrent reader of the shared memory saw last (SpecRace)
    users_path  \* the users file of pgexporter-admin and its .tmp file (SpecAdmin)

vars == <<phase, config, last, ops, xfer, view, users_path>>

----------------------------------------------------------------------------
(* Bounds of the model *)

\* the largest number of server sections in a candidate configuration file
MaxSections == 2

\* the number of requests handled after the start that the model follows
MaxOps == 2

----------------------------------------------------------------------------
(* Program constants *)

SERVER_UNKNOWN == 0
SERVER_PRIMARY == 1
SERVER_REPLICA == 2
SERVER_UNDERTERMINED_VERSION == 0
NUMBER_OF_ENDPOINTS == 32
PROMETHEUS_DEFAULT_BRIDGE_CACHE_SIZE == 10485760
PROMETHEUS_DEFAULT_BRIDGE_JSON_CACHE_SIZE == 10485760
PROMETHEUS_MAX_BRIDGE_JSON_CACHE_SIZE == 1073741824


----------------------------------------------------------------------------
(* Text helpers *)

Digits == {"0", "1", "2", "3", "4", "5", "6", "7", "8", "9"}

DigitVal(c) ==
    CASE c = "0" -> 0 [] c = "1" -> 1 [] c = "2" -> 2 [] c = "3" -> 3
      [] c = "4" -> 4 [] c = "5" -> 5 [] c = "6" -> 6 [] c = "7" -> 7
      [] c = "8" -> 8 [] c = "9" -> 9

IsSpace(c) == c \in {" ", "\t", "\n", "\r"}

\* the value of the longest prefix of s made of digits, and where it ends
RECURSIVE DigitPrefix(_, _, _)
DigitPrefix(s, i, acc) ==
    IF i <= Len(s) /\ s[i] \in Digits
    THEN DigitPrefix(s, i + 1, acc * 10 + DigitVal(s[i]))
    ELSE [val |-> acc, end |-> i]

RECURSIVE SkipSpace(_, _)
SkipSpace(s, i) == IF i <= Len(s) /\ IsSpace(s[i]) THEN SkipSpace(s, i + 1) ELSE i

\* strtol(str, &endptr, 10): leading white space, an optional sign, digits
Strtol(s) ==
    LET Number(neg, d, p) ==
            IF p.end = d
            THEN [val |-> 0, end |-> 1]
            ELSE [val |-> IF neg THEN 0 - p.val ELSE p.val, end |-> p.end]
        Signed(neg, d) == Number(neg, d, DigitPrefix(s, d, 0))
        From(b) ==
            Signed(b <= Len(s) /\ s[b] = "-",
                   IF b <= Len(s) /\ s[b] \in {"-", "+"} THEN b + 1 ELSE b)
    IN  From(SkipSpace(s, 1))

\* as_int: 1 when nothing was converted or text follows the number
as_int(s) ==
    LET Checked(r) ==
            IF r.end = 1 \/ r.end <= Len(s)
            THEN [err |-> TRUE, val |-> 0]
            ELSE [err |-> FALSE, val |-> r.val]
    IN  Checked(Strtol(s))

\* atoi: the leading number, 0 when there is none
atoi(s) == Strtol(s).val

\* as_long: as_int for a long
as_long(s) ==
    LET Checked(r) ==
            IF r.end = 1 \/ r.end <= Len(s)
            THEN [err |-> TRUE, val |-> 0]
            ELSE [err |-> FALSE, val |-> r.val]
    IN  Checked(Strtol(s))

\* isalpha in the C locale
Alpha ==
    {"a", "b", "c", "d", "e", "f", "g", "h", "i", "j", "k", "l", "m", "n", "o", "p", "q",
     "r", "s", "t", "u", "v", "w", "x", "y", "z", "A", "B", "C", "D", "E", "F", "G", "H",
     "I", "J", "K", "L", "M", "N", "O", "P", "Q", "R", "S", "T", "U", "V", "W", "X", "Y",
     "Z"}

\* is_empty_string: no character, or white space only
is_empty_string(s) == \A i \in 1..Len(s) : s[i] \in {" ", "\t", "\r", "\n"}

\* the loop of as_bytes over str[i ..]: the digits go to value, the first
\* letter of K, M, G, B sets the multiplier, any other first letter is skipped
RECURSIVE BytesScan(_, _, _)
BytesScan(s, i, st) ==
    IF i > Len(s) THEN st
    ELSE IF s[i] \in Digits
         THEN BytesScan(s, i + 1, [st EXCEPT !.value = Append(@, s[i])])
    ELSE IF s[i] \in Alpha /\ st.multiplier_set
         THEN IF st.multiplier = 1 \/ s[i] \notin {"b", "B"}
              THEN [st EXCEPT !.err = TRUE]
              ELSE BytesScan(s, i + 1, st)
    ELSE IF s[i] \in Alpha
         THEN BytesScan(s, i + 1,
                  CASE s[i] \in {"M", "m"} ->
                         [st EXCEPT !.multiplier = 1024 * 1024, !.multiplier_set = TRUE]
                    [] s[i] \in {"G", "g"} ->
                         [st EXCEPT !.multiplier = 1024 * 1024 * 1024,
                                    !.multiplier_set = TRUE]
                    [] s[i] \in {"K", "k"} ->
                         [st EXCEPT !.multiplier = 1024, !.multiplier_set = TRUE]
                    [] s[i] \in {"B", "b"} ->
                         [st EXCEPT !.multiplier = 1, !.multiplier_set = TRUE]
                    [] OTHER -> st)
    ELSE [st EXCEPT !.err = TRUE]

\* as_bytes(str, &bytes, default_bytes): [err, val]
as_bytes(s, default_bytes) ==
    LET Valued(st, l) ==
            IF l.err \/ l.val < 0 THEN [err |-> TRUE, val |-> default_bytes]
            ELSE [err |-> FALSE, val |-> l.val * st.multiplier]
        Scanned(st) ==
            IF st.err THEN [err |-> TRUE, val |-> default_bytes]
            ELSE Valued(st, as_long(st.value))
    IN  IF is_empty_string(s) THEN [err |-> FALSE, val |-> default_bytes]
        ELSE Scanned(BytesScan(s, 1, [err |-> FALSE, value |-> <<>>, multiplier |-> 1,
                                      multiplier_set |-> FALSE]))

\* the loop of as_seconds over str[i ..]: the digits go to value, the first
\* letter of S, M, H, D, W sets the multiplier, any other first letter is
\* skipped, a letter after the multiplier is an error
RECURSIVE SecondsScan(_, _, _)
SecondsScan(s, i, st) ==
    IF i > Len(s) THEN st
    ELSE IF s[i] \in Digits
         THEN SecondsScan(s, i + 1, [st EXCEPT !.value = Append(@, s[i])])
    ELSE IF s[i] \in Alpha /\ st.multiplier_set THEN [st EXCEPT !.err = TRUE]
    ELSE IF s[i] \in Alpha
         THEN SecondsScan(s, i + 1,
                  CASE s[i] \in {"s", "S"} ->
                         [st EXCEPT !.multiplier = 1, !.multiplier_set = TRUE]
                    [] s[i] \in {"m", "M"} ->
                         [st EXCEPT !.multiplier = 60, !.multiplier_set = TRUE]
                    [] s[i] \in {"h", "H"} ->
                         [st EXCEPT !.multiplier = 3600, !.multiplier_set = TRUE]
                    [] s[i] \in {"d", "D"} ->
                         [st EXCEPT !.multiplier = 24 * 3600, !.multiplier_set = TRUE]
                    [] s[i] \in {"w", "W"} ->
                         [st EXCEPT !.multiplier = 24 * 3600 * 7, !.multiplier_set = TRUE]
                    [] OTHER -> st)
    ELSE [st EXCEPT !.err = TRUE]

\* as_seconds(str, &age, default_age): [err, val]
as_seconds(s, default_age) ==
    LET Valued(st, n) ==
            IF n.err \/ n.val < 0 THEN [err |-> TRUE, val |-> default_age]
            ELSE [err |-> FALSE, val |-> n.val * st.multiplier]
        Scanned(st) ==
            IF st.err THEN [err |-> TRUE, val |-> default_age]
            ELSE Valued(st, as_int(st.value))
    IN  IF is_empty_string(s) THEN [err |-> FALSE, val |-> default_age]
        ELSE Scanned(SecondsScan(s, 1, [err |-> FALSE, value |-> <<>>, multiplier |-> 1,
                                        multiplier_set |-> FALSE]))

\* as_bool over the spellings the code accepts
as_bool(s) ==
    IF s \in {"true", "on", "yes", "1"} THEN [err |-> FALSE, val |-> TRUE]
    ELSE IF s \in {"false", "off", "no", "0"} THEN [err |-> FALSE, val |-> FALSE]
    ELSE [err |-> TRUE, val |-> FALSE]

----------------------------------------------------------------------------
(* The configuration (struct configuration, struct server, struct endpoint, *)
(* struct prometheus).  An array of the struct is a sequence holding the     *)
(* slots written so far; the slots behind it are zero, as the shared memory  *)
(* is when it is created.                                                    *)

\* a struct server after memset(.., 0, ..)
ZeroServer ==
    [name |-> "", host |-> "", port |-> 0, username |-> "",
     tls_cert_file |-> "", tls_key_file |-> "", tls_ca_file |-> "",
     data |-> "", wal |-> "", extensions_config |-> "",
     fd |-> 0, state |-> 0, version |-> 0]

ZeroEndpoint == [host |-> <<>>, port |-> 0]

\* slot i (1-based) of an array kept as the sequence of its written slots
Slot(arr, i, zero) == IF i >= 1 /\ i <= Len(arr) THEN arr[i] ELSE zero

\* the array with slot i (1-based) written
RECURSIVE Pad(_, _, _)
Pad(arr, n, zero) == IF Len(arr) >= n THEN arr ELSE Pad(Append(arr, zero), n, zero)

PutSlot(arr, i, v, zero) == [Pad(arr, i, zero) EXCEPT ![i] = v]

\* pgexporter_init_configuration on freshly created (zeroed) shared memory
InitConfiguration ==
    [host |-> "", metrics |-> -1,
     metrics_cache_max_age |-> 0, metrics_cache_max_size |-> 0,
     bridge |-> -1, bridge_cache_max_age |-> 300,
     bridge_cache_max_size |-> PROMETHEUS_DEFAULT_BRIDGE_CACHE_SIZE,
     bridge_json |-> -1,
     bridge_json_cache_max_size |-> PROMETHEUS_DEFAULT_BRIDGE_JSON_CACHE_SIZE,
     management |-> 0, cache |-> TRUE,
     log_type |-> "PGEXPORTER_LOGGING_TYPE_CONSOLE",
     log_level |-> "PGEXPORTER_LOGGING_LEVEL_INFO",
     log_mode |-> "PGEXPORTER_LOGGING_MODE_APPEND",
     log_path |-> "", log_rotation_size |-> 0, log_rotation_age |-> 0,
     log_line_prefix |-> "",
     tls |-> FALSE, tls_cert_file |-> "", tls_key_file |-> "", tls_ca_file |-> "",
     metrics_cert_file |-> "", metrics_key_file |-> "", metrics_ca_file |-> "",
     blocking_timeout |-> 30, authentication_timeout |-> 5,
     pidfile |-> "", libev |-> "",
     keep_alive |-> TRUE, nodelay |-> TRUE, non_blocking |-> TRUE,
     backlog |-> 16, hugepage |-> "HUGEPAGE_TRY",
     update_process_title |-> "UPDATE_PROCESS_TITLE_VERBOSE",
     unix_socket_dir |-> "", metrics_path |-> "", global_extensions |-> "",
     servers |-> <<>>, number_of_servers |-> 0,
     users |-> <<>>, number_of_users |-> 0,
     admins |-> <<>>, number_of_admins |-> 0,
     prometheus |-> <<>>, number_of_metrics |-> 0,
     endpoints |-> <<>>, number_of_endpoints |-> 0]

----------------------------------------------------------------------------
(* Bridge endpoints: as_endpoints and the text helpers it calls *)

\* strtok(str, ","): the non-empty pieces between commas
RECURSIVE Tokens(_, _, _)
Tokens(s, i, cur) ==
    IF i > Len(s)
    THEN IF cur = <<>> THEN <<>> ELSE <<cur>>
    ELSE IF s[i] = ","
         THEN (IF cur = <<>> THEN <<>> ELSE <<cur>>) \o Tokens(s, i + 1, <<>>)
         ELSE Tokens(s, i + 1, Append(cur, s[i]))

\* pgexporter_remove_whitespace: the text without the white space around it
RECURSIVE remove_whitespace(_)
remove_whitespace(t) ==
    IF t = <<>> THEN t
    ELSE IF IsSpace(t[1]) THEN remove_whitespace(Tail(t))
    ELSE IF IsSpace(t[Len(t)]) THEN remove_whitespace(SubSeq(t, 1, Len(t) - 1))
    ELSE t

HasPrefix(t, p) == Len(t) >= Len(p) /\ SubSeq(t, 1, Len(p)) = p
HasSuffix(t, p) == Len(t) >= Len(p) /\ SubSeq(t, Len(t) - Len(p) + 1, Len(t)) = p

\* pgexporter_remove_prefix, pgexporter_remove_suffix
remove_prefix(t, p) == IF HasPrefix(t, p) THEN SubSeq(t, Len(p) + 1, Len(t)) ELSE t
remove_suffix(t, p) == IF HasSuffix(t, p) THEN SubSeq(t, 1, Len(t) - Len(p)) ELSE t

HTTPS == <<"h", "t", "t", "p", "s", ":", "/", "/">>
HTTP == <<"h", "t", "t", "p", ":", "/", "/">>
METRICS_SUFFIX == <<"/", "m", "e", "t", "r", "i", "c", "s">>

\* the token as it reaches sscanf
NormalizeEndpoint(token) ==
    remove_suffix(remove_suffix(remove_prefix(remove_prefix(
        remove_whitespace(token), HTTPS), HTTP), METRICS_SUFFIX), <<"/">>)

RECURSIVE FirstColon(_, _)
FirstColon(t, i) == IF i > Len(t) \/ t[i] = ":" THEN i ELSE FirstColon(t, i + 1)

RECURSIVE WordEnd(_, _, _)
WordEnd(t, i, n) ==
    IF i > Len(t) \/ IsSpace(t[i]) \/ n = 0 THEN i ELSE WordEnd(t, i + 1, n - 1)

\* a scan that takes a token without a colon as a host with port 0
ScanEndpointDefaultPort(t) ==
    LET Scanned(c) ==
            IF c = 1 THEN [n |-> 0, host |-> <<>>, port |-> <<>>]
            ELSE IF c > Len(t) THEN [n |-> 2, host |-> t, port |-> <<"0">>]
                 ELSE [n |-> 2, host |-> SubSeq(t, 1, c - 1),
                       port |-> SubSeq(t, c + 1, Len(t))]
    IN  Scanned(FirstColon(t, 1))

\* sscanf(t, "%127[^:]:%5s", host, port): the number of conversions and their values
ScanEndpoint(t) ==
    LET Scanned(c, b, e) ==
            IF c = 1 THEN [n |-> 0, host |-> <<>>, port |-> <<>>]
            ELSE IF c > Len(t) \/ e = b
                 THEN [n |-> 1, host |-> SubSeq(t, 1, c - 1), port |-> <<>>]
                 ELSE [n |-> 2, host |-> SubSeq(t, 1, c - 1),
                       port |-> SubSeq(t, b, e - 1)]
        Port(c, b) == Scanned(c, b, WordEnd(t, b, 5))
        Host(c) == Port(c, SkipSpace(t, c + 1))
    IN  Host(FirstColon(t, 1))

\* the duplicate search of as_endpoints: slots 0..idx of config->endpoints
EndpointFound(endpoints, idx, host, port) ==
    \E i \in 0..idx :
        LET e == Slot(endpoints, i + 1, ZeroEndpoint)
        IN  e.host = host /\ e.port = atoi(port)

\* the loop of as_endpoints over the tokens: [err, idx, endpoints]
RECURSIVE EndpointLoop(_, _, _, _, _)
EndpointLoop(toks, k, idx, endpoints, reload) ==
    IF k > Len(toks) \/ idx >= NUMBER_OF_ENDPOINTS
    THEN [err |-> FALSE, idx |-> idx, endpoints |-> endpoints]
    ELSE LET Stored(sc) ==
                 IF sc.n # 2
                 THEN [err |-> TRUE, idx |-> idx, endpoints |-> endpoints]
                 ELSE IF ~reload /\ EndpointFound(endpoints, idx, sc.host, sc.port)
                      THEN EndpointLoop(toks, k + 1, idx, endpoints, reload)
                      ELSE EndpointLoop(toks, k + 1, idx + 1,
                               PutSlot(endpoints, idx + 1,
                                       [host |-> sc.host, port |-> atoi(sc.port)],
                                       ZeroEndpoint),
                               reload)
         IN  Stored(ScanEndpoint(NormalizeEndpoint(toks[k])))

\* as_endpoints(str, config, reload): [err, config]
as_endpoints(str, cfg, reload) ==
    LET Result(r) ==
            IF r.err
            THEN [err |-> TRUE,
                  config |-> [cfg EXCEPT !.endpoints = <<>>, !.number_of_endpoints = 0]]
            ELSE [err |-> FALSE,
                  config |-> [cfg EXCEPT !.endpoints = r.endpoints,
                                         !.number_of_endpoints = r.idx]]
    IN  Result(EndpointLoop(Tokens(str, 1, <<>>), 1, 0, cfg.endpoints, reload))

----------------------------------------------------------------------------
(* pgexporter_read_configuration.  A file is the sequence of its non-empty  *)
(* lines, each already split as extract_key_value splits it:                 *)
(*   [kind |-> "section", name]   a line "[name]"                            *)
(*   [kind |-> "comment"]         a line starting with # or ;                *)
(*   [kind |-> "kv", key, value]  a line "key = value"                       *)
(* A value is [text, chars]: its text as a string, which the keys that copy  *)
(* or compare it read, and as its characters, which the keys that parse it   *)
(* read.  An input gives the representation that the key of its line reads.  *)
(*   [kind |-> "bad"]             any other line (no "=": key and value NULL) *)
(* The keys modelled are those of KnownKeys; the files of the model use no   *)
(* other key of the code.  Server names are shorter than "pgexporter", so    *)
(* memcpy(&srv.name, section, strlen(section)) leaves exactly the section.   *)

NUMBER_OF_SERVERS == 64

MAIN == "pgexporter"

KnownKeys ==
    {"host", "port", "user", "metrics", "bridge", "bridge_endpoints", "bridge_json",
     "bridge_json_cache_max_size", "management", "cache", "tls", "tls_ca_file", "tls_cert_file", "tls_key_file",
     "metrics_ca_file", "metrics_cert_file", "metrics_key_file", "unix_socket_dir",
     "data_dir", "wal_dir", "extensions"}

\* the srv that the parser starts at a section header (lines 220-224)
NewServer(section) ==
    [ZeroServer EXCEPT !.name = section, !.fd = -1,
                       !.state = SERVER_UNKNOWN,
                       !.version = SERVER_UNDERTERMINED_VERSION]

\* the duplicate check that forgets the first stored server
DuplicateNameSkipFirst(cfg, srv, idx_server) ==
    \E j \in 1..(idx_server - 2) : srv.name = Slot(cfg.servers, j + 1, ZeroServer).name

\* the duplicate check before srv is stored: servers[0 .. idx_server - 2]
DuplicateName(cfg, srv, idx_server) ==
    \E j \in 0..(idx_server - 2) : srv.name = Slot(cfg.servers, j + 1, ZeroServer).name

\* one int key of the main section: the field is written only when as_int succeeds
MainInt(st, field, value) ==
    IF st.section # MAIN THEN [st EXCEPT !.unknown = TRUE]
    ELSE LET Set(r) == IF r.err THEN [st EXCEPT !.unknown = TRUE]
                        ELSE [st EXCEPT !.config = [@ EXCEPT ![field] = r.val]]
         IN  Set(as_int(value.chars))

MainBool(st, field, value) ==
    IF st.section # MAIN THEN [st EXCEPT !.unknown = TRUE]
    ELSE LET Set(r) == IF r.err THEN [st EXCEPT !.unknown = TRUE]
                        ELSE [st EXCEPT !.config = [@ EXCEPT ![field] = r.val]]
         IN  Set(as_bool(value.text))

\* a text key of the main section only
MainText(st, field, value) ==
    IF st.section # MAIN THEN [st EXCEPT !.unknown = TRUE]
    ELSE [st EXCEPT !.config = [@ EXCEPT ![field] = value.text]]

\* a text key of any section: srv.name is overwritten by the section
ServerText(st, field, value) ==
    IF st.section = "" THEN [st EXCEPT !.unknown = TRUE]
    ELSE [st EXCEPT !.srv = [@ EXCEPT !.name = st.section, ![field] = value.text]]

\* a text key that the main section and the server sections both have
MainOrServerText(st, field, value) ==
    IF st.section = MAIN THEN [st EXCEPT !.config = [@ EXCEPT ![field] = value.text]]
    ELSE ServerText(st, field, value)

\* the if / else-if chain over the key (lines 255-986)
ReadKey(st, key, value) ==
    CASE key = "host" ->
           IF st.section = MAIN THEN [st EXCEPT !.config = [@ EXCEPT !.host = value.text]]
           ELSE ServerText(st, "host", value)
      [] key = "port" ->
           IF st.section = "" THEN [st EXCEPT !.unknown = TRUE]
           ELSE LET Set(r) == IF r.err THEN [st EXCEPT !.unknown = TRUE]
                               ELSE [st EXCEPT !.srv = [@ EXCEPT !.port = r.val]]
                IN  Set(as_int(value.chars))
      [] key = "user" -> ServerText(st, "username", value)
      [] key = "metrics" -> MainInt(st, "metrics", value)
      [] key = "bridge" -> MainInt(st, "bridge", value)
      [] key = "bridge_endpoints" ->
           IF st.section # MAIN THEN [st EXCEPT !.unknown = TRUE]
           ELSE LET Set(r) == [st EXCEPT !.config = r.config, !.unknown = r.err]
                IN  Set(as_endpoints(value.chars, st.config, FALSE))
      [] key = "bridge_json" -> MainInt(st, "bridge_json", value)
      [] key = "bridge_json_cache_max_size" ->
           IF st.section # MAIN THEN [st EXCEPT !.unknown = TRUE]
           ELSE LET Set(r) ==
                        [st EXCEPT !.unknown = @ \/ r.err,
                                   !.config = [@ EXCEPT !.bridge_json_cache_max_size =
                                       IF r.val > PROMETHEUS_MAX_BRIDGE_JSON_CACHE_SIZE
                                       THEN PROMETHEUS_MAX_BRIDGE_JSON_CACHE_SIZE
                                       ELSE r.val]]
                IN  Set(as_bytes(value.chars, PROMETHEUS_DEFAULT_BRIDGE_JSON_CACHE_SIZE))
      [] key = "management" -> MainInt(st, "management", value)
      [] key = "cache" -> MainBool(st, "cache", value)
      [] key = "tls" -> MainBool(st, "tls", value)
      [] key = "tls_ca_file" -> MainOrServerText(st, "tls_ca_file", value)
      [] key = "tls_cert_file" -> MainOrServerText(st, "tls_cert_file", value)
      [] key = "tls_key_file" -> MainOrServerText(st, "tls_key_file", value)
      [] key = "metrics_ca_file" -> MainText(st, "metrics_ca_file", value)
      [] key = "metrics_cert_file" -> MainText(st, "metrics_cert_file", value)
      [] key = "metrics_key_file" -> MainText(st, "metrics_key_file", value)
      [] key = "unix_socket_dir" -> MainText(st, "unix_socket_dir", value)
      [] key = "data_dir" -> ServerText(st, "data", value)
      [] key = "wal_dir" -> ServerText(st, "wal", value)
      [] key = "extensions" ->
           IF st.section = MAIN
           THEN [st EXCEPT !.config = [@ EXCEPT !.global_extensions = value.text]]
           ELSE ServerText(st, "extensions_config", value)
      [] OTHER -> [st EXCEPT !.unknown = TRUE]

\* a section header (lines 187-228)
ReadSection(st, name) ==
    IF name = MAIN THEN [st EXCEPT !.section = name]
    ELSE LET Started(stored) ==
                 IF stored.exited THEN stored
                 ELSE [stored EXCEPT !.section = name, !.srv = NewServer(name),
                                     !.idx_server = @ + 1]
         IN  Started(IF st.idx_server > 0 /\ st.idx_server <= NUMBER_OF_SERVERS
                     THEN IF DuplicateName(st.config, st.srv, st.idx_server)
                          THEN [st EXCEPT !.exited = TRUE]
                          ELSE [st EXCEPT !.config = [@ EXCEPT !.servers =
                                   PutSlot(@, st.idx_server, st.srv, ZeroServer)]]
                     ELSE st)

\* one line of the file; warned counts the "Unknown:" warnings
ReadLine(st, line) ==
    CASE line.kind = "section" -> ReadSection(st, line.name)
      [] line.kind = "comment" -> st
      [] line.kind = "kv" ->
           LET Warned(r) == [r EXCEPT !.warned = IF r.unknown THEN @ + 1 ELSE @]
           IN  Warned(ReadKey([st EXCEPT !.unknown = FALSE], line.key, line.value))
      [] OTHER -> [st EXCEPT !.warned = @ + 1]

RECURSIVE ReadLines(_, _, _)
ReadLines(st, lines, i) ==
    IF i > Len(lines) \/ st.exited THEN st
    ELSE ReadLines(ReadLine(st, lines[i]), lines, i + 1)

\* after the last line (lines 1011-1030)
ReadEnd(st) ==
    IF st.exited THEN st
    ELSE IF st.srv.name # ""
         THEN IF DuplicateName(st.config, st.srv, st.idx_server)
              THEN [st EXCEPT !.exited = TRUE]
              ELSE [st EXCEPT !.config = [@ EXCEPT
                       !.servers = IF st.idx_server >= 1
                                   THEN PutSlot(@, st.idx_server, st.srv, ZeroServer)
                                   ELSE @,
                       !.number_of_servers = st.idx_server]]
         ELSE [st EXCEPT !.config = [@ EXCEPT !.number_of_servers = st.idx_server]]

\* a pgexporter_read_configuration for which an "Unknown:" warning is fatal
read_configuration_strict(cfg, file) ==
    IF ~file.exists
    THEN [ret |-> 1, exited |-> FALSE, warned |-> 0, config |-> cfg]
    ELSE LET Result(st) == [ret |-> IF st.warned > 0 THEN 1 ELSE 0,
                             exited |-> st.exited, warned |-> st.warned,
                             config |-> st.config]
         IN  Result(ReadEnd(ReadLines(
                        [config |-> cfg, srv |-> ZeroServer, idx_server |-> 0,
                         section |-> "", exited |-> FALSE, unknown |-> FALSE,
                         warned |-> 0], file.lines, 1)))

\* pgexporter_read_configuration(shm, filename), file = [exists, lines]: a file
\* that does not exist cannot be opened.  [ret, exited, warned, config]
\* (With no server section at all srv is never initialised and the code may
\* write servers[-1]; number_of_servers is 0 then and validation rejects the
\* configuration whatever was written.)
pgexporter_read_configuration(cfg, file) ==
    IF ~file.exists
    THEN [ret |-> 1, exited |-> FALSE, warned |-> 0, config |-> cfg]
    ELSE LET Result(st) == [ret |-> 0, exited |-> st.exited, warned |-> st.warned,
                             config |-> st.config]
         IN  Result(ReadEnd(ReadLines(
                        [config |-> cfg, srv |-> ZeroServer, idx_server |-> 0,
                         section |-> "", exited |-> FALSE, unknown |-> FALSE,
                         warned |-> 0], file.lines, 1)))

----------------------------------------------------------------------------
(* The file system that validation looks at *)

Directories == {"/tmp"}
ExistingFiles == {"/tls.crt", "/tls.key", "/m.crt", "/m.key"}

pgexporter_exists(path) == path \in ExistingFiles \/ path \in Directories

----------------------------------------------------------------------------
(* pgexporter_validate_configuration: [ret, config] *)

\* the three blocks that fall back to plain HTTP (lines 1089-1120)
ClearMetricsTLS(cfg) ==
    [cfg EXCEPT !.metrics_cert_file = "", !.metrics_key_file = "", !.metrics_ca_file = ""]

CheckMetricsFile(cfg, field) ==
    IF cfg[field] # "" /\ ~pgexporter_exists(cfg[field]) THEN ClearMetricsTLS(cfg) ELSE cfg

\* the loop over the servers (lines 1128-1159)
ServerInvalid(srv) ==
    \/ srv.name = "pgexporter"
    \/ srv.name = "all"
    \/ srv.host = ""
    \/ srv.port = 0
    \/ srv.username = ""

\* a validation that lacks the two bridge JSON checks
validate_configuration_without_bridge_json(cfg) ==
    IF cfg.host = "" THEN [ret |-> 1, config |-> cfg]
    ELSE IF cfg.unix_socket_dir = "" THEN [ret |-> 1, config |-> cfg]
    ELSE IF cfg.unix_socket_dir \notin Directories THEN [ret |-> 1, config |-> cfg]
    ELSE IF cfg.metrics = -1 /\ cfg.bridge = -1 THEN [ret |-> 1, config |-> cfg]
    ELSE LET Servers(c) ==
                 IF c.number_of_servers <= 0 THEN [ret |-> 1, config |-> c]
                 ELSE IF \E i \in 1..c.number_of_servers :
                            ServerInvalid(Slot(c.servers, i, ZeroServer))
                      THEN [ret |-> 1, config |-> c]
                      ELSE [ret |-> 0, config |-> c]
         IN  Servers(CheckMetricsFile(CheckMetricsFile(CheckMetricsFile(
                         IF cfg.backlog < 16 THEN [cfg EXCEPT !.backlog = 16] ELSE cfg,
                         "metrics_cert_file"), "metrics_key_file"), "metrics_ca_file"))

pgexporter_validate_configuration(cfg) ==
    IF cfg.host = "" THEN [ret |-> 1, config |-> cfg]
    ELSE IF cfg.unix_socket_dir = "" THEN [ret |-> 1, config |-> cfg]
    ELSE IF cfg.unix_socket_dir \notin Directories THEN [ret |-> 1, config |-> cfg]
    ELSE IF cfg.metrics = -1 /\ cfg.bridge = -1 THEN [ret |-> 1, config |-> cfg]
    ELSE IF cfg.bridge = -1 /\ cfg.bridge_json # -1 THEN [ret |-> 1, config |-> cfg]
    ELSE IF cfg.bridge_json # -1 /\ cfg.bridge_json_cache_max_size <= 0
         THEN [ret |-> 1, config |-> cfg]
    ELSE LET Servers(c) ==
                 IF c.number_of_servers <= 0 THEN [ret |-> 1, config |-> c]
                 ELSE IF \E i \in 1..c.number_of_servers :
                            ServerInvalid(Slot(c.servers, i, ZeroServer))
                      THEN [ret |-> 1, config |-> c]
                      ELSE [ret |-> 0, config |-> c]
         IN  Servers(CheckMetricsFile(CheckMetricsFile(CheckMetricsFile(
                         IF cfg.backlog < 16 THEN [cfg EXCEPT !.backlog = 16] ELSE cfg,
                         "metrics_cert_file"), "metrics_key_file"), "metrics_ca_file"))

----------------------------------------------------------------------------
(* Users: pgexporter_read_users_configuration and its validation.  A users  *)
(* file is [exists, names]: one line per user, the password left out.       *)

NUMBER_OF_USERS == 64

\* [ret, config]: 1 cannot open, 2 no master key, 3 too many users
pgexporter_read_users_configuration(cfg, file, masterkey) ==
    IF ~file.exists THEN [ret |-> 1, config |-> cfg]
    ELSE IF ~masterkey THEN [ret |-> 2, config |-> cfg]
    ELSE LET c == [cfg EXCEPT
                      !.users = [i \in 1..Len(file.names) |-> [username |-> file.names[i]]],
                      !.number_of_users = Len(file.names)]
         IN  [ret |-> IF c.number_of_users > NUMBER_OF_USERS THEN 3 ELSE 0,
              config |-> c]

pgexporter_validate_users_configuration(cfg) ==
    IF cfg.number_of_users <= 0 THEN 1
    ELSE IF \E i \in 1..cfg.number_of_servers :
               \A j \in 1..cfg.number_of_users :
                   Slot(cfg.servers, i, ZeroServer).username # cfg.users[j].username
         THEN 1
         ELSE 0

----------------------------------------------------------------------------
(* The metric catalog that pgexporter_read_internal_yaml_metrics loads: a   *)
(* metric is its tag, collector, sort type, server type and the tree of its  *)
(* query variants (pg_root, ext_root).                                       *)

\* a root pointer: NULL, a tree of query variants, or a tree that was freed
NullRoot == [ptr |-> "NULL", alts |-> {}]
Tree(alts) == [ptr |-> "tree", alts |-> alts]
FreedRoot == [ptr |-> "freed", alts |-> {}]

ZeroMetric ==
    [tag |-> "", collector |-> "", sort_type |-> "SORT_NAME",
     server_query_type |-> "SERVER_QUERY_BOTH",
     pg_root |-> NullRoot, ext_root |-> NullRoot]

\* the top-level "version:" of the catalog file: the minimum version of a query
\* that gives none
YAML_DEFAULT_VERSION == 13

\* a catalog whose pg_stat_database lost its version 12 query
InternalCatalogWithoutV12 ==
    << [tag |-> "pg_wal_last_received", collector |-> "wal_last_received",
        sort_type |-> "SORT_NAME", server_query_type |-> "SERVER_QUERY_REPLICA",
        pg_root |-> Tree({[version |-> 11]}), ext_root |-> NullRoot],
       [tag |-> "pg_stat_database", collector |-> "stat_db",
        sort_type |-> "SORT_DATA", server_query_type |-> "SERVER_QUERY_BOTH",
        pg_root |-> Tree({[version |-> 10]}), ext_root |-> NullRoot],
       [tag |-> "pg_shmem_allocations", collector |-> "shmem_size",
        sort_type |-> "SORT_NAME", server_query_type |-> "SERVER_QUERY_BOTH",
        pg_root |-> Tree({[version |-> YAML_DEFAULT_VERSION]}),
        ext_root |-> NullRoot] >>

\* a catalog that gives version 10 to the query that states none
InternalCatalogDefault10 ==
    << [tag |-> "pg_wal_last_received", collector |-> "wal_last_received",
        sort_type |-> "SORT_NAME", server_query_type |-> "SERVER_QUERY_REPLICA",
        pg_root |-> Tree({[version |-> 11]}), ext_root |-> NullRoot],
       [tag |-> "pg_stat_database", collector |-> "stat_db",
        sort_type |-> "SORT_DATA", server_query_type |-> "SERVER_QUERY_BOTH",
        pg_root |-> Tree({[version |-> 10], [version |-> 12]}),
        ext_root |-> NullRoot],
       [tag |-> "pg_shmem_allocations", collector |-> "shmem_size",
        sort_type |-> "SORT_NAME", server_query_type |-> "SERVER_QUERY_BOTH",
        pg_root |-> Tree({[version |-> 10]}), ext_root |-> NullRoot] >>

InternalCatalog ==
    << [tag |-> "pg_wal_last_received", collector |-> "wal_last_received",
        sort_type |-> "SORT_NAME", server_query_type |-> "SERVER_QUERY_REPLICA",
        pg_root |-> Tree({[version |-> 11]}), ext_root |-> NullRoot],
       [tag |-> "pg_stat_database", collector |-> "stat_db",
        sort_type |-> "SORT_DATA", server_query_type |-> "SERVER_QUERY_BOTH",
        pg_root |-> Tree({[version |-> 10], [version |-> 12]}),
        ext_root |-> NullRoot],
       [tag |-> "pg_shmem_allocations", collector |-> "shmem_size",
        sort_type |-> "SORT_NAME", server_query_type |-> "SERVER_QUERY_BOTH",
        pg_root |-> Tree({[version |-> YAML_DEFAULT_VERSION]}),
        ext_root |-> NullRoot] >>

\* pgexporter_read_internal_yaml_metrics(config, true): [ret, config]
pgexporter_read_internal_yaml_metrics(cfg, ok) ==
    IF ~ok THEN [ret |-> 1, config |-> cfg]
    ELSE [ret |-> 0,
          config |-> [cfg EXCEPT !.prometheus = InternalCatalog,
                                 !.number_of_metrics = Len(InternalCatalog)]]

----------------------------------------------------------------------------
(* transfer_configuration(config, reload), as the sequence of its writes to *)
(* the running configuration.                                                *)

\* a restart_int that never asks for a restart
restart_int_never(e, n) == FALSE

restart_int(e, n) == e # n
restart_string(e, n) == e # n

\* old_endpoints / new_endpoints: "host:port,host:port", as the sequence of
\* the pieces appended
RECURSIVE EndpointsString(_, _)
EndpointsString(cfg, i) ==
    IF i > cfg.number_of_endpoints THEN <<>>
    ELSE LET e == Slot(cfg.endpoints, i, ZeroEndpoint)
         IN  <<e.host, ":", e.port>>
             \o (IF i < cfg.number_of_endpoints THEN <<",">> ELSE <<>>)
             \o EndpointsString(cfg, i + 1)

\* the value returned: one of the restart_int / restart_string calls found a change
TransferChanged(cfg, reload) ==
    \/ restart_int(cfg.metrics_cache_max_size, reload.metrics_cache_max_size)
    \/ restart_int(cfg.bridge, reload.bridge)
    \/ restart_string(EndpointsString(cfg, 1), EndpointsString(reload, 1))
    \/ restart_int(cfg.bridge_cache_max_size, reload.bridge_cache_max_size)
    \/ restart_int(cfg.bridge_json, reload.bridge_json)
    \/ restart_int(cfg.bridge_json_cache_max_size, reload.bridge_json_cache_max_size)
    \/ restart_int(cfg.log_type, reload.log_type)
    \/ restart_string(cfg.pidfile, reload.pidfile)
    \/ restart_string(cfg.libev, reload.libev)
    \/ restart_int(cfg.hugepage, reload.hugepage)
    \/ restart_int(cfg.update_process_title, reload.update_process_title)
    \/ restart_string(cfg.unix_socket_dir, reload.unix_socket_dir)

\* the restart of the logging system (lines 2839-2852)
TransferLog(cfg, reload) ==
    IF \/ cfg.log_path # reload.log_path
       \/ cfg.log_rotation_size # reload.log_rotation_size
       \/ cfg.log_rotation_age # reload.log_rotation_age
       \/ cfg.log_mode # reload.log_mode
    THEN [cfg EXCEPT !.log_rotation_size = reload.log_rotation_size,
                     !.log_rotation_age = reload.log_rotation_age,
                     !.log_mode = reload.log_mode,
                     !.log_line_prefix = reload.log_line_prefix,
                     !.log_path = reload.log_path]
    ELSE cfg

\* the assignments of lines 2760-2895 had the metrics port and the TLS settings
\* been left to a restart
TransferScalarsKeepPortTLS(cfg, reload) ==
    TransferLog(
        [cfg EXCEPT !.host = reload.host,
                    !.metrics_cache_max_age = reload.metrics_cache_max_age,
                    !.bridge_cache_max_age = reload.bridge_cache_max_age,
                    !.management = reload.management,
                    !.cache = reload.cache,
                    !.log_level = reload.log_level,
                    !.blocking_timeout = reload.blocking_timeout,
                    !.authentication_timeout = reload.authentication_timeout,
                    !.keep_alive = reload.keep_alive,
                    !.nodelay = reload.nodelay,
                    !.non_blocking = reload.non_blocking,
                    !.backlog = reload.backlog],
        reload)

\* the assignments of lines 2760-2895
TransferScalars(cfg, reload) ==
    TransferLog(
        [cfg EXCEPT !.host = reload.host,
                    !.metrics = reload.metrics,
                    !.metrics_cache_max_age = reload.metrics_cache_max_age,
                    !.bridge_cache_max_age = reload.bridge_cache_max_age,
                    !.management = reload.management,
                    !.cache = reload.cache,
                    !.log_level = reload.log_level,
                    !.tls = reload.tls,
                    !.tls_cert_file = reload.tls_cert_file,
                    !.tls_key_file = reload.tls_key_file,
                    !.tls_ca_file = reload.tls_ca_file,
                    !.metrics_cert_file = reload.metrics_cert_file,
                    !.metrics_key_file = reload.metrics_key_file,
                    !.metrics_ca_file = reload.metrics_ca_file,
                    !.blocking_timeout = reload.blocking_timeout,
                    !.authentication_timeout = reload.authentication_timeout,
                    !.keep_alive = reload.keep_alive,
                    !.nodelay = reload.nodelay,
                    !.non_blocking = reload.non_blocking,
                    !.backlog = reload.backlog],
        reload)

copy_server(dst, src) ==
    [dst EXCEPT !.name = src.name, !.host = src.host, !.port = src.port,
                !.username = src.username, !.data = src.data, !.wal = src.wal,
                !.extensions_config = src.extensions_config, !.fd = src.fd]

copy_user(dst, src) == src

\* copy_promethus up to the reset of the roots (lines 2966-2973)
copy_promethus_reset(dst, src) ==
    [dst EXCEPT !.tag = src.tag, !.collector = src.collector,
                !.sort_type = src.sort_type,
                !.server_query_type = src.server_query_type,
                !.pg_root = NullRoot, !.ext_root = NullRoot]

\* the rest of copy_promethus: the trees are copied when the source has them
copy_promethus_roots(dst, src) ==
    [dst EXCEPT !.pg_root = IF src.pg_root # NullRoot THEN src.pg_root ELSE @,
                !.ext_root = IF src.ext_root # NullRoot THEN src.ext_root ELSE @]

copy_promethus(dst, src) == copy_promethus_roots(copy_promethus_reset(dst, src), src)

copy_endpoint(dst, src) == [dst EXCEPT !.host = src.host, !.port = src.port]

\* where the transfer goes after the loop step i of a loop of n rounds
LoopNext(at, i, n, after) ==
    IF i + 1 < n THEN [at |-> at, i |-> i + 1] ELSE [at |-> after, i |-> 0]

LoopStart(at, n, after) ==
    IF n > 0 THEN [at |-> at, i |-> 0] ELSE [at |-> after, i |-> 0]

\* the write that the transfer does at pc, and the pc after it
TransferStep(cfg, reload, pc) ==
    CASE pc.at = "scalars" ->
           [config |-> TransferScalars(cfg, reload),
            pc |-> [at |-> "memset_servers", i |-> 0]]
      [] pc.at = "memset_servers" ->
           [config |-> [cfg EXCEPT !.servers = <<>>],
            pc |-> LoopStart("copy_server", reload.number_of_servers, "set_servers")]
      [] pc.at = "copy_server" ->
           [config |-> [cfg EXCEPT !.servers =
                           PutSlot(@, pc.i + 1,
                                   copy_server(Slot(@, pc.i + 1, ZeroServer),
                                               Slot(reload.servers, pc.i + 1, ZeroServer)),
                                   ZeroServer)],
            pc |-> LoopNext("copy_server", pc.i, reload.number_of_servers, "set_servers")]
      [] pc.at = "set_servers" ->
           [config |-> [cfg EXCEPT !.number_of_servers = reload.number_of_servers],
            pc |-> [at |-> "users", i |-> 0]]
      [] pc.at = "users" ->
           [config |-> [cfg EXCEPT
                           !.users = [i \in 1..reload.number_of_users |->
                                         copy_user(<<>>, reload.users[i])],
                           !.number_of_users = reload.number_of_users,
                           !.admins = [i \in 1..reload.number_of_admins |->
                                         copy_user(<<>>, reload.admins[i])],
                           !.number_of_admins = reload.number_of_admins,
                           !.metrics_path = reload.metrics_path],
            pc |-> LoopStart("copy_promethus_reset", reload.number_of_metrics,
                             "set_metrics")]
      [] pc.at = "copy_promethus_reset" ->
           [config |-> [cfg EXCEPT !.prometheus =
                           PutSlot(@, pc.i + 1,
                                   copy_promethus_reset(Slot(@, pc.i + 1, ZeroMetric),
                                                        reload.prometheus[pc.i + 1]),
                                   ZeroMetric)],
            pc |-> [at |-> "copy_promethus_roots", i |-> pc.i]]
      [] pc.at = "copy_promethus_roots" ->
           [config |-> [cfg EXCEPT !.prometheus =
                           PutSlot(@, pc.i + 1,
                                   copy_promethus_roots(Slot(@, pc.i + 1, ZeroMetric),
                                                        reload.prometheus[pc.i + 1]),
                                   ZeroMetric)],
            pc |-> LoopNext("copy_promethus_reset", pc.i, reload.number_of_metrics,
                            "set_metrics")]
      [] pc.at = "set_metrics" ->
           [config |-> [cfg EXCEPT !.number_of_metrics = reload.number_of_metrics],
            pc |-> LoopStart("copy_endpoint", reload.number_of_endpoints,
                             "set_endpoints")]
      [] pc.at = "copy_endpoint" ->
           [config |-> [cfg EXCEPT !.endpoints =
                           PutSlot(@, pc.i + 1,
                                   copy_endpoint(Slot(@, pc.i + 1, ZeroEndpoint),
                                                 Slot(reload.endpoints, pc.i + 1,
                                                      ZeroEndpoint)),
                                   ZeroEndpoint)],
            pc |-> LoopNext("copy_endpoint", pc.i, reload.number_of_endpoints,
                            "set_endpoints")]
      [] pc.at = "set_endpoints" ->
           [config |-> [cfg EXCEPT !.number_of_endpoints = reload.number_of_endpoints],
            pc |-> [at |-> "done", i |-> 0]]

RECURSIVE TransferFrom(_, _, _)
TransferFrom(cfg, reload, pc) ==
    IF pc.at = "done" THEN cfg
    ELSE LET Rest(r) == TransferFrom(r.config, reload, r.pc)
         IN  Rest(TransferStep(cfg, reload, pc))

\* transfer_configuration(config, reload), run to its end: [changed, config]
transfer_configuration(cfg, reload) ==
    [changed |-> TransferChanged(cfg, reload),
     config |-> TransferFrom(cfg, reload, [at |-> "scalars", i |-> 0])]

----------------------------------------------------------------------------
(* pgexporter_reload_configuration *)

\* the candidate built from the files (lines 1524-1570): [exited, failed, config];
\* failed names the step that returned non-zero ("" when none did).  fault is
\* what the environment makes fail: "masterkey" (no master key), "admins"
\* (the admins file cannot be read), "yaml" (the internal metrics)
BuildCandidate(file, users, fault) ==
    LET out(w, x, f, c) == [warned |-> w, exited |-> x, failed |-> f, config |-> c]
        Validated(w, vc) ==
            IF vc.ret # 0 THEN out(w, FALSE, "validate", vc.config)
            ELSE IF pgexporter_validate_users_configuration(vc.config) # 0
                 THEN out(w, FALSE, "validate_users", vc.config)
            ELSE out(w, FALSE, "", vc.config)
        Metrics(w, ym) ==
            IF ym.ret # 0 THEN out(w, FALSE, "yaml", ym.config)
            ELSE Validated(w, pgexporter_validate_configuration(ym.config))
        Users(w, us) ==
            IF us.ret # 0 THEN out(w, FALSE, "users", us.config)
            ELSE IF fault = "admins" THEN out(w, FALSE, "admins", us.config)
            ELSE Metrics(w, pgexporter_read_internal_yaml_metrics(us.config,
                                                                  fault # "yaml"))
        Main(rd) ==
            IF rd.exited THEN out(rd.warned, TRUE, "", rd.config)
            ELSE IF rd.ret # 0 THEN out(rd.warned, FALSE, "read", rd.config)
            ELSE Users(rd.warned,
                       pgexporter_read_users_configuration(rd.config, users,
                                                           fault # "masterkey"))
    IN  Main(pgexporter_read_configuration(InitConfiguration, file))

----------------------------------------------------------------------------
(* conf set: is_valid_config_key, apply_main_configuration,                 *)
(* apply_configuration, pgexporter_conf_set.  A key is the sequence of its  *)
(* parts between the dots; an empty part stands for a dot at an end or two  *)
(* dots in a row.                                                           *)

ServerIndex(cfg, name) ==
    IF \E i \in 1..cfg.number_of_servers : Slot(cfg.servers, i, ZeroServer).name = name
    THEN CHOOSE i \in 1..cfg.number_of_servers :
             /\ Slot(cfg.servers, i, ZeroServer).name = name
             /\ \A j \in 1..(i - 1) : Slot(cfg.servers, j, ZeroServer).name # name
    ELSE 0

\* [valid, section_type, context, key]
is_valid_config_key(cfg, parts) ==
    LET bad == [valid |-> FALSE, section_type |-> 0, context |-> "", key |-> ""]
    IN  IF parts = <<>> \/ (\E i \in 1..Len(parts) : parts[i] = "") \/ Len(parts) > 3
        THEN bad
        ELSE IF Len(parts) = 1
             THEN [valid |-> TRUE, section_type |-> 0, context |-> "", key |-> parts[1]]
        ELSE IF Len(parts) = 2
             THEN IF parts[1] = MAIN
                  THEN [valid |-> TRUE, section_type |-> 0, context |-> "",
                        key |-> parts[2]]
                  ELSE bad
        ELSE IF parts[1] = "server" /\ ServerIndex(cfg, parts[2]) # 0
             THEN [valid |-> TRUE, section_type |-> 1, context |-> parts[2],
                   key |-> parts[3]]
             ELSE bad

\* an int key of apply_main_configuration: [ret, config]
ApplyInt(cfg, field, value) ==
    LET Set(r) == IF r.err THEN [ret |-> 1, config |-> cfg]
                  ELSE [ret |-> 0, config |-> [cfg EXCEPT ![field] = r.val]]
    IN  Set(as_int(value.chars))

ApplyBool(cfg, field, value) ==
    LET Set(r) == IF r.err THEN [ret |-> 1, config |-> cfg]
                  ELSE [ret |-> 0, config |-> [cfg EXCEPT ![field] = r.val]]
    IN  Set(as_bool(value.text))

ApplyText(cfg, field, value) == [ret |-> 0, config |-> [cfg EXCEPT ![field] = value.text]]

\* the server keys of apply_main_configuration, on server si of config
ApplyServerKey(cfg, si, key, value) ==
    LET srv == cfg.servers[si]
        put(s) == [ret |-> 0, config |-> [cfg EXCEPT !.servers[si] = s]]
    IN  CASE key = "host" -> put([srv EXCEPT !.host = value.text])
          [] key = "port" ->
               LET Set(r) == IF r.err THEN [ret |-> 1, config |-> cfg]
                             ELSE [ret |-> 0,
                                   config |-> [cfg EXCEPT !.servers[si].port = r.val]]
               IN  Set(as_int(value.chars))
          [] key = "user" -> put([srv EXCEPT !.username = value.text])
          [] key = "data_dir" -> put([srv EXCEPT !.data = value.text])
          [] key = "wal_dir" -> put([srv EXCEPT !.wal = value.text])
          [] key = "tls_cert_file" -> put([srv EXCEPT !.tls_cert_file = value.text])
          [] key = "tls_key_file" -> put([srv EXCEPT !.tls_key_file = value.text])
          [] key = "tls_ca_file" -> put([srv EXCEPT !.tls_ca_file = value.text])
          [] OTHER -> [ret |-> 1, config |-> cfg]

\* apply_main_configuration(config, srv, section, key, value): [ret, config];
\* si = 0 is srv = NULL
apply_main_configuration(cfg, si, key, value) ==
    IF si # 0 THEN ApplyServerKey(cfg, si, key, value)
    ELSE CASE key = "host" -> ApplyText(cfg, "host", value)
           [] key = "metrics" -> ApplyInt(cfg, "metrics", value)
           [] key = "management" -> ApplyInt(cfg, "management", value)
           [] key = "bridge" -> ApplyInt(cfg, "bridge", value)
           [] key = "bridge_json" -> ApplyInt(cfg, "bridge_json", value)
           [] key = "bridge_json_cache_max_size" ->
                LET Set(r) == [ret |-> IF r.err THEN 1 ELSE 0,
                               config |-> [cfg EXCEPT !.bridge_json_cache_max_size = r.val]]
                IN  Set(as_bytes(value.chars, 0))
           [] key = "bridge_endpoints" ->
                LET Set(r) == [ret |-> IF r.err THEN 1 ELSE 0, config |-> r.config]
                IN  Set(as_endpoints(value.chars, cfg, TRUE))
           [] key = "cache" -> ApplyBool(cfg, "cache", value)
           [] key = "tls" -> ApplyBool(cfg, "tls", value)
           [] key = "tls_cert_file" -> ApplyText(cfg, "tls_cert_file", value)
           [] key = "tls_key_file" -> ApplyText(cfg, "tls_key_file", value)
           [] key = "tls_ca_file" -> ApplyText(cfg, "tls_ca_file", value)
           [] key = "metrics_cert_file" -> ApplyText(cfg, "metrics_cert_file", value)
           [] key = "metrics_key_file" -> ApplyText(cfg, "metrics_key_file", value)
           [] key = "metrics_ca_file" -> ApplyText(cfg, "metrics_ca_file", value)
           [] key = "unix_socket_dir" -> ApplyText(cfg, "unix_socket_dir", value)
           [] key = "log_path" -> ApplyText(cfg, "log_path", value)
           [] key = "log_line_prefix" -> ApplyText(cfg, "log_line_prefix", value)
           [] OTHER -> [ret |-> 1, config |-> cfg]

\* the trees of the first number_of_metrics metrics after
\* pgexporter_free_pg_node_avl / pgexporter_free_extension_node_avl
FreeRoots(cfg, to) ==
    [cfg EXCEPT !.prometheus =
        [i \in 1..Len(@) |->
            IF i <= cfg.number_of_metrics
            THEN [@[i] EXCEPT !.pg_root = IF @ # NullRoot THEN to ELSE @,
                              !.ext_root = IF @ # NullRoot THEN to ELSE @]
            ELSE @[i]]]

\* apply_configuration: [ret, restart_required, config].  temp_config is a
\* memcpy of the running configuration, so the trees it frees are the trees
\* of the running configuration
apply_configuration(cfg, info, value) ==
    LET Transferred(t) == [ret |-> 0, restart_required |-> t.changed, config |-> t.config]
        Validated(current, vc) ==
            IF vc.ret # 0 THEN [ret |-> 1, restart_required |-> FALSE, config |-> current]
            ELSE Transferred(transfer_configuration(current, vc.config))
        Applied(current, ap) ==
            IF ap.ret # 0 THEN [ret |-> 1, restart_required |-> FALSE, config |-> current]
            ELSE Validated(current, pgexporter_validate_configuration(ap.config))
        Copied(current, temp) ==
            Applied(current,
                    apply_main_configuration(temp,
                        IF info.section_type = 1 THEN ServerIndex(temp, info.context)
                                                 ELSE 0,
                        info.key, value))
    IN  Copied(FreeRoots(cfg, FreedRoot), FreeRoots(cfg, NullRoot))

DigitChars == <<"0", "1", "2", "3", "4", "5", "6", "7", "8", "9">>

\* snprintf(buffer, buffer_size, "%d", n)
RECURSIVE FormatNat(_)
FormatNat(n) ==
    IF n < 10 THEN <<DigitChars[n + 1]>>
    ELSE Append(FormatNat(n \div 10), DigitChars[(n % 10) + 1])

FormatInt(n) == IF n < 0 THEN <<"-">> \o FormatNat(0 - n) ELSE FormatNat(n)

FormatBool(b) == IF b THEN "true" ELSE "false"

\* write_config_value(buffer, config_key, buffer_size): [ret, value], the text
\* written for the key from the running configuration
write_config_value(cfg, parts) ==
    LET int(n) == [ret |-> 0, value |-> [text |-> "", chars |-> FormatInt(n)]]
        str(s) == [ret |-> 0, value |-> [text |-> s, chars |-> <<>>]]
        none == [ret |-> 1, value |-> [text |-> "", chars |-> <<>>]]
        Server(srv, key) ==
            CASE key = "host" -> str(srv.host)
              [] key = "port" -> int(srv.port)
              [] key = "user" -> str(srv.username)
              [] key = "data_dir" -> str(srv.data)
              [] key = "wal_dir" -> str(srv.wal)
              [] key = "tls_cert_file" -> str(srv.tls_cert_file)
              [] key = "tls_key_file" -> str(srv.tls_key_file)
              [] key = "tls_ca_file" -> str(srv.tls_ca_file)
              [] OTHER -> none
        Main(key) ==
            CASE key \in {"metrics", "management", "bridge", "bridge_json"} -> int(cfg[key])
              [] key \in {"cache", "tls"} -> str(FormatBool(cfg[key]))
              [] key \in {"host", "log_path", "log_line_prefix", "tls_cert_file",
                          "tls_key_file", "tls_ca_file", "metrics_cert_file",
                          "metrics_key_file", "metrics_ca_file", "unix_socket_dir"} ->
                   str(cfg[key])
              [] OTHER -> none
        Written(info) ==
            IF ~info.valid THEN none
            ELSE IF info.section_type = 0 THEN Main(info.key)
            ELSE Server(Slot(cfg.servers, ServerIndex(cfg, info.context), ZeroServer),
                        info.key)
    IN  Written(is_valid_config_key(cfg, parts))

\* new_value of the response: "<unknown>" when write_config_value fails
ResponseValue(w) == IF w.ret # 0 THEN [text |-> "<unknown>", chars |-> <<>>] ELSE w.value

\* pgexporter_conf_set: [ret, ec, restart_required, new_value, config].  A
\* payload is [request, haskey, hasvalue, key, value]: whether it has a request
\* category, a config key and a config value, and what they are
pgexporter_conf_set(cfg, payload) ==
    LET err(ec, c) == [ret |-> 1, ec |-> ec, restart_required |-> FALSE,
                       new_value |-> [text |-> "", chars |-> <<>>], config |-> c]
        Applied(ap) ==
            IF ap.ret # 0 THEN err("CONF_SET_ERROR", ap.config)
            ELSE [ret |-> 0, ec |-> "", restart_required |-> ap.restart_required,
                  new_value |-> ResponseValue(write_config_value(ap.config, payload.key)),
                  config |-> ap.config]
        Checked(info) ==
            IF ~info.valid THEN err("CONF_SET_ERROR", cfg)
            ELSE Applied(apply_configuration(cfg, info, payload.value))
    IN  IF ~payload.request THEN err("CONF_SET_NOREQUEST", cfg)
        ELSE IF ~payload.haskey \/ ~payload.hasvalue
             THEN err("CONF_SET_NOCONFIG_KEY_OR_VALUE", cfg)
        ELSE Checked(is_valid_config_key(cfg, payload.key))

----------------------------------------------------------------------------
(* The inputs of the model: configuration files, users files, payloads *)

Txt(s) == [text |-> s, chars |-> <<>>]
Chs(cs) == [text |-> "", chars |-> cs]

KV(k, v) == [kind |-> "kv", key |-> k, value |-> v]
Section(n) == [kind |-> "section", name |-> n]

\* the [pgexporter] section that every file of the model starts with
BaseMain ==
    << Section(MAIN), KV("host", Txt("*")), KV("unix_socket_dir", Txt("/tmp")),
       KV("metrics", Chs(<<"5", "0", "0", "1">>)) >>

\* lines added to the [pgexporter] section
MainExtras ==
    { <<>>,
      << KV("metrics", Chs(<<"5", "0", "0", "2">>)) >>,
      << KV("tls", Txt("on")), KV("tls_cert_file", Txt("/tls.crt")), KV("tls_key_file", Txt("/tls.key")) >>,
      << KV("metrics_cert_file", Txt("/m.crt")), KV("metrics_key_file", Txt("/m.key")) >>,
      << KV("bridge", Chs(<<"5", "0", "0", "3">>)), KV("management", Chs(<<"5", "0", "1", "0">>)) >>,
      << KV("bridge", Chs(<<"5", "0", "0", "3">>)),
         KV("bridge_endpoints", Chs(<<"h", "1", ":", "1", ",", "h", "2", ":", "2">>)) >>,
      << KV("bridge", Chs(<<"5", "0", "0", "3">>)),
         KV("bridge_endpoints", Chs(<<"h", "1", ":", "1", ",", " ", "h", "t", "t", "p", ":", "/", "/",
              "h", "1", ":", "0", "1", "/", "m", "e", "t", "r", "i", "c", "s">>)) >>,
      << KV("metrics_cert_file", Txt("/m.crt")), KV("metrics_key_file", Txt("/missing.key")) >>,
      << KV("foo", Txt("bar")) >>,
      << [kind |-> "bad"] >>,
      << [kind |-> "comment"], KV("metrics", Chs(<<"5", "0", "0", "1", "x">>)) >>,
      << KV("bridge_json", Chs(<<"5", "0", "0", "4">>)) >>,
      << KV("metrics", Chs(<<"-", "1">>)), KV("bridge", Chs(<<"5", "0", "0", "3">>)) >>,
      << KV("bridge", Chs(<<"5", "0", "0", "3">>)), KV("bridge_json", Chs(<<"5", "0", "0", "4">>)),
         KV("bridge_json_cache_max_size", Chs(<<"1", "k">>)) >>,
      << KV("bridge", Chs(<<"5", "0", "0", "3">>)), KV("bridge_json", Chs(<<"5", "0", "0", "4">>)),
         KV("bridge_json_cache_max_size", Chs(<<"0">>)) >> }

\* the server sections a file is made of
ServerSections ==
    { << Section("a"), KV("host", Txt("db1")), KV("port", Chs(<<"5", "4", "3", "2">>)),
         KV("user", Txt("u1")) >>,
      << Section("a"), KV("host", Txt("db1")), KV("port", Chs(<<"5", "4", "3", "2">>)),
         KV("user", Txt("u1")), KV("tls_cert_file", Txt("/tls.crt")), KV("data_dir", Txt("/data")) >>,
      << Section("all"), KV("host", Txt("db3")), KV("port", Chs(<<"5", "4", "3", "4">>)),
         KV("user", Txt("u1")) >> }

RECURSIVE Flatten(_)
Flatten(ss) == IF ss = <<>> THEN <<>> ELSE Head(ss) \o Flatten(Tail(ss))

SectionLists == UNION {[1..n -> ServerSections] : n \in 0..MaxSections}

StdSections ==
    << << Section("a"), KV("host", Txt("db1")), KV("port", Chs(<<"5", "4", "3", "2">>)),
          KV("user", Txt("u1")) >>,
       << Section("b"), KV("host", Txt("db2")), KV("port", Chs(<<"5", "4", "3", "3">>)),
          KV("user", Txt("u2")) >> >>

File(extra, sections) == [exists |-> TRUE, lines |-> BaseMain \o extra \o Flatten(sections)]

StdFile == File(<<>>, StdSections)
NoFile == [exists |-> FALSE, lines |-> <<>>]

\* a [pgexporter] section that comes back after a server section
LateMainFile ==
    [exists |-> TRUE,
     lines |-> BaseMain \o Flatten(StdSections) \o << Section(MAIN), KV("user", Txt("u1")) >>]

Files ==
    {File(x, StdSections) : x \in MainExtras}
        \cup {File(<<>>, sl) : sl \in SectionLists}
        \cup {NoFile, LateMainFile, File(<<>>, <<StdSections[2]>>),
              File(<<>>, <<StdSections[2], StdSections[1]>>)}

StdUsers == [exists |-> TRUE, names |-> <<"u1", "u2">>]

UsersFiles ==
    { StdUsers, [exists |-> TRUE, names |-> <<"u1">>],
      [exists |-> TRUE, names |-> <<>>], [exists |-> FALSE, names |-> <<>>] }

Faults == {"", "masterkey", "admins", "yaml"}

\* what a load or a reload finds on disk and in its environment
FileInputs ==
    {[file |-> f, users |-> StdUsers, fault |-> ""] : f \in Files}
        \cup {[file |-> StdFile, users |-> u, fault |-> ""] : u \in UsersFiles}
        \cup {[file |-> StdFile, users |-> StdUsers, fault |-> x] : x \in Faults}

Payload(k, v) ==
    [request |-> TRUE, haskey |-> TRUE, hasvalue |-> TRUE, key |-> k, value |-> v]

Payloads ==
    { [request |-> FALSE, haskey |-> FALSE, hasvalue |-> FALSE, key |-> <<>>, value |-> Txt("")],
      [request |-> TRUE, haskey |-> TRUE, hasvalue |-> FALSE, key |-> <<"host">>, value |-> Txt("")],
      Payload(<<"host">>, Txt("localhost")),
      Payload(<<"bridge">>, Chs(<<"5", "0", "0", "3">>)),
      Payload(<<"bridge_endpoints">>, Chs(<<"h", "1", ":", "1", ",", "h", "1", ":", "1">>)),
      Payload(<<"bridge_endpoints">>, Chs(<<"h", "1">>)),
      Payload(<<"server", "a", "port">>, Chs(<<"0">>)),
      Payload(<<"server", "zz", "host">>, Txt("db9")),
      Payload(<<"foo">>, Txt("bar")),
      Payload(<<"metrics">>, Chs(<<"5", "0", "0", "2">>)),
      Payload(<<"log_line_prefix">>, Txt("%Y")),
      Payload(<<"metrics_ca_file">>, Txt("/missing.ca")),
      Payload(<<"server", "a", "tls_cert_file">>, Txt("/tls.crt")),
      Payload(<<"bridge_json">>, Chs(<<"5", "0", "0", "4">>)),
      Payload(<<"bridge_json_cache_max_size">>, Chs(<<"0">>)),
      Payload(<<"server", "a", "user">>, Txt("u9")) }

\* the candidate that each input builds
Candidate == [in \in FileInputs |-> BuildCandidate(in.file, in.users, in.fault)]

\* a reload that transfers the candidate before it looks at what failed
reload_configuration_transfer_first(cfg, in) ==
    LET Transferred(b, t) ==
            IF b.exited
            THEN [warned |-> b.warned, exited |-> TRUE, ret |-> -1, r |-> FALSE,
                  failed |-> "", cand |-> b.config, config |-> cfg]
            ELSE IF b.failed # ""
                 THEN [warned |-> b.warned, exited |-> FALSE, ret |-> 1, r |-> FALSE,
                       failed |-> b.failed, cand |-> b.config, config |-> t.config]
                 ELSE [warned |-> b.warned, exited |-> FALSE, ret |-> 0,
                       r |-> t.changed, failed |-> "", cand |-> b.config,
                       config |-> t.config]
        Built(b) == Transferred(b, transfer_configuration(cfg, b.config))
    IN  Built(Candidate[in])

\* pgexporter_reload_configuration(&r): [warned, exited, ret, r, failed, cand,
\* config], for what the reload finds on disk
pgexporter_reload_configuration(cfg, in) ==
    LET Transferred(b, t) ==
            [warned |-> b.warned, exited |-> FALSE, ret |-> 0, r |-> t.changed,
             failed |-> "", cand |-> b.config, config |-> t.config]
        Built(b) ==
            IF b.exited
            THEN [warned |-> b.warned, exited |-> TRUE, ret |-> -1, r |-> FALSE,
                  failed |-> "", cand |-> b.config, config |-> cfg]
            ELSE IF b.failed # ""
                 THEN [warned |-> b.warned, exited |-> FALSE, ret |-> 1, r |-> FALSE,
                       failed |-> b.failed, cand |-> b.config, config |-> cfg]
                 ELSE Transferred(b, transfer_configuration(cfg, b.config))
    IN  Built(Candidate[in])

\* what a probe of a server detects
ProbeVersions == {16}

----------------------------------------------------------------------------
(* The state machine *)

\* a line that is neither a comment, a section header nor "key = value" with
\* a key of the if / else-if chain
Unrecognised(line) ==
    \/ line.kind = "bad"
    \/ line.kind = "kv" /\ line.key \notin KnownKeys

\* the keys of the TLS material of the metrics endpoint
MetricsTLSKeys == {"metrics_cert_file", "metrics_key_file", "metrics_ca_file"}

\* a file that gives one of them a value
ConfiguresMetricsTLS(lines) ==
    \E i \in 1..Len(lines) :
        /\ lines[i].kind = "kv"
        /\ lines[i].key \in MetricsTLSKeys
        /\ lines[i].value.text # ""

\* a conf set payload that gives one of them a value
SetsMetricsTLS(p) ==
    /\ p.request /\ p.haskey /\ p.hasvalue
    /\ Len(p.key) = 1
    /\ p.key[1] \in MetricsTLSKeys
    /\ p.value.text # ""

\* the scalar fields in which a candidate differs from the running configuration
ScalarFields == (DOMAIN InitConfiguration) \
    {"servers", "number_of_servers", "users", "number_of_users", "admins",
     "number_of_admins", "prometheus", "number_of_metrics", "endpoints",
     "number_of_endpoints"}

Differing(cfg, cand) == {f \in ScalarFields : cfg[f] # cand[f]}

\* the server table and the metric catalog of a configuration, as a reader of
\* the shared memory sees them
Tables(cfg) ==
    [number_of_servers |-> cfg.number_of_servers,
     servers |-> [i \in 1..cfg.number_of_servers |-> Slot(cfg.servers, i, ZeroServer)],
     number_of_metrics |-> cfg.number_of_metrics,
     prometheus |-> [i \in 1..cfg.number_of_metrics |->
                        Slot(cfg.prometheus, i, ZeroMetric)]]

NoOp ==
    [op |-> "none", ret |-> 0, r |-> FALSE, failed |-> "", ec |-> "", warned |-> 0,
     exited |-> FALSE, unrecognised |-> FALSE, diff |-> {},
     payload |-> Payload(<<>>, Txt("")), new_value |-> Txt(""), metrics_tls |-> FALSE,
     server |-> 0, metric |-> 0, variant |-> 0, parsed |-> 0,
     cand |-> InitConfiguration]

Init ==
    /\ phase = "boot"
    /\ config = InitConfiguration
    /\ last = NoOp
    /\ ops = 0
    /\ xfer = [at |-> "idle", i |-> 0, pre |-> InitConfiguration]
    /\ view = [seen |-> FALSE, tables |-> Tables(InitConfiguration)]
    /\ users_path = [lines |-> <<>>, tmp |-> FALSE]

\* the start of the process: the files are read into the shared memory and
\* validated; any failure ends the process
Load ==
    /\ phase = "boot"
    /\ \E in \in FileInputs :
         LET b == Candidate[in]
             ok == ~b.exited /\ b.failed = ""
         IN  /\ phase' = IF ok THEN "running" ELSE "exited"
             /\ config' = b.config
             /\ last' = [NoOp EXCEPT !.op = "load", !.ret = IF ok THEN 0 ELSE 1,
                                     !.failed = b.failed, !.warned = b.warned,
                                     !.exited = b.exited,
                                     !.unrecognised =
                                         \E i \in 1..Len(in.file.lines) :
                                             Unrecognised(in.file.lines[i]),
                                     !.metrics_tls = ConfiguresMetricsTLS(in.file.lines),
                                     !.cand = IF ok THEN b.config ELSE InitConfiguration]
    /\ UNCHANGED <<ops, xfer, view, users_path>>

\* conf reload / SIGHUP: pgexporter_reload_configuration
Reload ==
    /\ phase = "running"
    /\ ops < MaxOps
    /\ ops' = ops + 1
    /\ \E in \in FileInputs :
         LET Done(res) ==
                 /\ phase' = IF res.exited THEN "exited" ELSE "running"
                 /\ config' = res.config
                 /\ last' = [NoOp EXCEPT !.op = "reload", !.ret = res.ret, !.r = res.r,
                                         !.failed = res.failed, !.warned = res.warned,
                                         !.exited = res.exited,
                                         !.unrecognised =
                                             \E i \in 1..Len(in.file.lines) :
                                                 Unrecognised(in.file.lines[i]),
                                         !.metrics_tls =
                                             ConfiguresMetricsTLS(in.file.lines),
                                         !.diff = IF res.ret = 0
                                                  THEN Differing(config, res.cand)
                                                  ELSE {},
                                         !.cand = IF res.ret = 0 THEN res.cand
                                                   ELSE InitConfiguration]
         IN  Done(pgexporter_reload_configuration(config, in))
    /\ UNCHANGED <<xfer, view, users_path>>

\* conf set: pgexporter_conf_set
ConfSet ==
    /\ phase = "running"
    /\ ops < MaxOps
    /\ ops' = ops + 1
    /\ \E p \in Payloads :
         LET Done(res) ==
                 /\ config' = res.config
                 /\ last' = [NoOp EXCEPT !.op = "conf_set", !.ret = res.ret,
                                         !.r = res.restart_required, !.ec = res.ec,
                                         !.payload = p, !.new_value = res.new_value,
                                         !.metrics_tls = SetsMetricsTLS(p)]
         IN  Done(pgexporter_conf_set(config, p))
    /\ UNCHANGED <<phase, xfer, view, users_path>>

\* the collector probes server i and stores what it detected
Probe ==
    /\ phase = "running"
    /\ \E i \in 1..config.number_of_servers, v \in ProbeVersions :
         /\ config.servers[i].version # v
         /\ config' = [config EXCEPT !.servers[i].version = v,
                                     !.servers[i].state = SERVER_PRIMARY]
    /\ last' = [NoOp EXCEPT !.op = "probe"]
    /\ UNCHANGED <<phase, ops, xfer, view, users_path>>

Next == Load \/ Reload \/ ConfSet \/ Probe

Spec == Init /\ [][Next]_vars

----------------------------------------------------------------------------
(* The reload step by step, with a reader of the shared memory beside it.   *)
(* The configuration lives in a shared mapping that the worker processes    *)
(* read while the main process runs transfer_configuration on it; no lock   *)
(* is taken on either side.  A step is one write of TransferStep; a read    *)
(* takes the two tables at once, which is the most a reader can hope for.   *)

\* the candidate files of the reloads that are followed step by step
RaceInputs ==
    { [file |-> StdFile, users |-> StdUsers, fault |-> ""],
      [file |-> File(<<>>, <<StdSections[2]>>), users |-> StdUsers, fault |-> ""],
      [file |-> File(<<>>, <<StdSections[2], StdSections[1]>>), users |-> StdUsers,
       fault |-> ""] }

\* pgexporter_reload_configuration up to the call of transfer_configuration
BeginTransfer ==
    /\ phase = "running"
    /\ xfer.at = "idle"
    /\ ops < MaxOps
    /\ \E in \in RaceInputs :
         LET b == Candidate[in]
         IN  /\ ~b.exited /\ b.failed = ""
             /\ last' = [NoOp EXCEPT !.op = "reload", !.warned = b.warned,
                                     !.r = TransferChanged(config, b.config),
                                     !.diff = Differing(config, b.config),
                                     !.cand = b.config]
    /\ xfer' = [at |-> "scalars", i |-> 0, pre |-> config]
    /\ view' = [view EXCEPT !.seen = FALSE]
    /\ ops' = ops + 1
    /\ UNCHANGED <<phase, config, users_path>>

\* one write of transfer_configuration
StepTransfer ==
    /\ xfer.at \notin {"idle", "done"}
    /\ LET Written(st) ==
               /\ config' = st.config
               /\ xfer' = [xfer EXCEPT !.at = st.pc.at, !.i = st.pc.i]
       IN  Written(TransferStep(config, last.cand, xfer))
    /\ UNCHANGED <<phase, last, ops, view, users_path>>

\* transfer_configuration and the reload return
EndTransfer ==
    /\ xfer.at = "done"
    /\ xfer' = [xfer EXCEPT !.at = "idle", !.i = 0]
    /\ UNCHANGED <<phase, config, last, ops, view, users_path>>

\* a worker process reads the tables of the shared configuration
Reader ==
    /\ phase = "running"
    /\ view' = [seen |-> TRUE, tables |-> Tables(config)]
    /\ view' # view
    /\ UNCHANGED <<phase, config, last, ops, xfer, users_path>>

NextRace == Load \/ BeginTransfer \/ StepTransfer \/ EndTransfer \/ Reader

SpecRace == Init /\ [][NextRace]_vars

----------------------------------------------------------------------------
(* as_endpoints on its own.  The function has two callers: the line          *)
(* bridge_endpoints = ... of a configuration file (reload = false), and conf *)
(* set of bridge_endpoints (reload = true).  Each call works on the endpoint *)
(* table that the configuration holds at that point: empty at the first      *)
(* line of a file, the result of the earlier line when a file gives the key  *)
(* again, the running table for conf set.                                   *)

EndpointSpaces == {<<>>, <<" ">>}
EndpointSchemes == {<<>>, HTTP, HTTPS}
EndpointHosts == {<<"h", "2">>}
EndpointPorts == {<<"1">>, <<"9", "0", "9", "0">>, <<"6", "5", "5", "3", "5">>}
EndpointSuffixes == {<<>>, METRICS_SUFFIX, <<"/">>, METRICS_SUFFIX \o <<"/">>}

\* the parts of a token [space][scheme]host:port[/metrics][/][space]
EndpointParts ==
    [lead : EndpointSpaces, scheme : EndpointSchemes, host : EndpointHosts,
     port : EndpointPorts, suffix : EndpointSuffixes, trail : EndpointSpaces]

EndpointToken(p) ==
    p.lead \o p.scheme \o p.host \o <<":">> \o p.port \o p.suffix \o p.trail

\* http://h1/metrics, h2:9090/metrics/, h1:9090
PortlessList ==
    HTTP \o <<"h", "1">> \o METRICS_SUFFIX \o <<",", " ">>
        \o <<"h", "2", ":", "9", "0", "9", "0">> \o METRICS_SUFFIX \o <<"/", ",", " ">>
        \o <<"h", "1", ":", "9", "0", "9", "0">>

\* values with a token that has no port
PortlessValues ==
    { PortlessList, <<"h", "1">>, <<"h", "1", ":", "1", ",", "h", "2">>,
      HTTPS \o <<"h", "2", "/">> }

\* values of several tokens, each with its port
EndpointLists ==
    { <<"h", "1", ":", "1", ",", "h", "2", ":", "2">>,
      <<"h", "1", ":", "1", ",", "h", "1", ":", "1">>,
      <<"h", "2", ":", "9", "0", "9", "0">> \o METRICS_SUFFIX \o <<"/", ",", " ">>
          \o <<"h", "1", ":", "9", "0", "9", "0">> }

EndpointValues ==
    {EndpointToken(p) : p \in EndpointParts} \cup PortlessValues \cup EndpointLists

\* a line bridge_endpoints = value of the file being read
ReadEndpoints ==
    /\ ops < MaxOps
    /\ ops' = ops + 1
    /\ \E value \in EndpointValues :
         LET Done(res) ==
                 /\ config' = res.config
                 /\ last' = [NoOp EXCEPT !.op = "read_endpoints",
                                         !.ret = IF res.err THEN 1 ELSE 0,
                                         !.payload = Payload(<<"bridge_endpoints">>,
                                                             Chs(value))]
         IN  Done(as_endpoints(value, config, FALSE))
    /\ UNCHANGED <<phase, xfer, view, users_path>>

\* conf set of bridge_endpoints, as far as as_endpoints
SetEndpoints ==
    /\ ops < MaxOps
    /\ ops' = ops + 1
    /\ \E value \in EndpointValues :
         LET Done(res) ==
                 /\ config' = res.config
                 /\ last' = [NoOp EXCEPT !.op = "set_endpoints",
                                         !.ret = IF res.err THEN 1 ELSE 0,
                                         !.payload = Payload(<<"bridge_endpoints">>,
                                                             Chs(value))]
         IN  Done(as_endpoints(value, config, TRUE))
    /\ UNCHANGED <<phase, xfer, view, users_path>>

NextEndpoints == ReadEndpoints \/ SetEndpoints

SpecEndpoints == Init /\ [][NextEndpoints]_vars

----------------------------------------------------------------------------
(* The choice of the query of a metric for a server.  The collector looks   *)
(* up, in the tree of a metric, the query with the greatest minimum version *)
(* that the server reaches, for a metric whose server type is that of the   *)
(* server or both.                                                          *)

\* the server type of the metric against the state of the server
RoleMatches(metric, state) ==
    \/ metric.server_query_type = "SERVER_QUERY_BOTH"
    \/ metric.server_query_type = "SERVER_QUERY_PRIMARY" /\ state = SERVER_PRIMARY
    \/ metric.server_query_type = "SERVER_QUERY_REPLICA" /\ state = SERVER_REPLICA

\* the queries of the metric that a server of this version and state can run
Applicable(metric, version, state) ==
    IF RoleMatches(metric, state) /\ metric.pg_root.ptr = "tree"
    THEN {a \in metric.pg_root.alts : a.version <= version}
    ELSE {}

\* select(metric, version, role): the minimum version of the query chosen, 0
\* when there is none
select(metric, version, state) ==
    LET Chosen(alts) ==
            IF alts = {} THEN 0
            ELSE (CHOOSE a \in alts : \A b \in alts : b.version <= a.version).version
    IN  Chosen(Applicable(metric, version, state))

\* the versions and states that the probe of a server can detect
DetectVersions == {9, 10, 11, 12, 13, 14}
DetectStates == {SERVER_PRIMARY, SERVER_REPLICA}

\* the probe of server i: SHOW server_version_num and pg_is_in_recovery()
Detect ==
    /\ phase = "running"
    /\ \E i \in 1..config.number_of_servers, v \in DetectVersions, s \in DetectStates :
         /\ config' = [config EXCEPT !.servers[i].version = v, !.servers[i].state = s]
         /\ config' # config
    /\ last' = [NoOp EXCEPT !.op = "probe"]
    /\ UNCHANGED <<phase, ops, xfer, view, users_path>>

\* the collector picks the query of metric m for server i
Collect ==
    /\ phase = "running"
    /\ \E i \in 1..config.number_of_servers, m \in 1..config.number_of_metrics :
         /\ config.servers[i].version # SERVER_UNDERTERMINED_VERSION
         /\ last' = [NoOp EXCEPT !.op = "collect", !.server = i, !.metric = m,
                                 !.variant = select(config.prometheus[m],
                                                    config.servers[i].version,
                                                    config.servers[i].state)]
    /\ UNCHANGED <<phase, config, ops, xfer, view, users_path>>

NextCollect == Load \/ Detect \/ Collect

SpecCollect == Init /\ [][NextCollect]_vars

(***************************************************************************)
(* as_seconds and as_bytes on their own: the value of a key such as        *)
(* bridge_cache_max_age or bridge_json_cache_max_size, parsed with the     *)
(* default its handler passes.                                             *)
(***************************************************************************)

\* the longest value given to as_seconds and as_bytes
MaxUnitLen == 3

UnitChars == {"1", "x", "m", "B", "-"}

UnitValues == UNION {[1..n -> UnitChars] : n \in 0..MaxUnitLen}

\* bridge_cache_max_age = value (lines 422-435)
ParseSeconds ==
    /\ ops < MaxOps
    /\ ops' = ops + 1
    /\ \E value \in UnitValues :
         LET Done(res) ==
                 last' = [NoOp EXCEPT !.op = "as_seconds",
                                      !.ret = IF res.err THEN 1 ELSE 0,
                                      !.parsed = res.val,
                                      !.payload = Payload(<<"bridge_cache_max_age">>,
                                                          Chs(value))]
         IN  Done(as_seconds(value, 300))
    /\ UNCHANGED <<phase, config, xfer, view, users_path>>

\* bridge_json_cache_max_size = value (lines 450-461)
ParseBytes ==
    /\ ops < MaxOps
    /\ ops' = ops + 1
    /\ \E value \in UnitValues :
         LET Done(res) ==
                 last' = [NoOp EXCEPT !.op = "as_bytes",
                                      !.ret = IF res.err THEN 1 ELSE 0,
                                      !.parsed = res.val,
                                      !.payload = Payload(<<"bridge_json_cache_max_size">>,
                                                          Chs(value))]
         IN  Done(as_bytes(value, PROMETHEUS_DEFAULT_BRIDGE_JSON_CACHE_SIZE))
    /\ UNCHANGED <<phase, config, xfer, view, users_path>>

NextUnits == ParseSeconds \/ ParseBytes

SpecUnits == Init /\ [][NextUnits]_vars

(***************************************************************************)
(* pgexporter-admin: add_user, update_user and remove_user on the users    *)
(* file.  The file is a sequence of lines, a line the characters           *)
(* "<username>:<encoded password>\n"; users_path.tmp tells whether the     *)
(* temporary file <users_path>.tmp exists.                                 *)
(***************************************************************************)

\* strtok(line, ":"): the leading delimiters are skipped, the token ends at
\* the next delimiter or at the end of the line (no token: the empty
\* sequence; a line of the file ends with "\n" and has one)
RECURSIVE TokenEnd(_, _)
TokenEnd(line, i) ==
    IF i <= Len(line) /\ line[i] # ":" THEN TokenEnd(line, i + 1) ELSE i

RECURSIVE TokenStart(_, _)
TokenStart(line, i) ==
    IF i <= Len(line) /\ line[i] = ":" THEN TokenStart(line, i + 1) ELSE i

strtok(line) ==
    LET From(b) == SubSeq(line, b, TokenEnd(line, b) - 1)
    IN  From(TokenStart(line, 1))

\* pgexporter_encrypt and pgexporter_base64_encode of a password
Encoded(password) == <<"e", "n", "c">> \o password

\* the entry written for a user
Entry(username, password) == username \o <<":">> \o Encoded(password) \o <<"\n">>

\* add_user: [ret, file].  The file is opened with "a+", read for an existing
\* user and for the number of users, and the entry is appended
add_user(file, masterkey, username, password) ==
    IF ~masterkey THEN [ret |-> 1, file |-> file]
    ELSE IF \E i \in 1..Len(file.lines) : strtok(file.lines[i]) = username
         THEN [ret |-> 1, file |-> file]
    ELSE IF Len(file.lines) > NUMBER_OF_USERS THEN [ret |-> 1, file |-> file]
    ELSE [ret |-> 0,
          file |-> [file EXCEPT !.lines = Append(@, Entry(username, password))]]

\* the loop of update_user: the lines written to the temporary file
UpdatedLines(lines, username, password) ==
    [i \in 1..Len(lines) |->
        IF strtok(lines[i]) = username THEN Entry(username, password) ELSE lines[i]]

\* fopen(tmpfilename, "w+") and remove(tmpfilename)
OpenTmp(file) == [file EXCEPT !.tmp = TRUE]
RemoveTmp(file) == [file EXCEPT !.tmp = FALSE]

\* rename(tmpfilename, users_path)
RenameTmp(file, lines) == [lines |-> lines, tmp |-> FALSE]

\* update_user: [ret, file].  Without the master key the temporary file is
\* not opened; otherwise it is renamed over the users file when the user was
\* found and removed when not
update_user(file, masterkey, username, password) ==
    IF ~masterkey THEN [ret |-> 1, file |-> file]
    ELSE IF \E i \in 1..Len(file.lines) : strtok(file.lines[i]) = username
         THEN [ret |-> 0,
               file |-> RenameTmp(OpenTmp(file),
                                  UpdatedLines(file.lines, username, password))]
         ELSE [ret |-> 1, file |-> RemoveTmp(OpenTmp(file))]

\* the loop of remove_user: the lines written to the temporary file
RECURSIVE RemainingLines(_, _)
RemainingLines(lines, username) ==
    IF lines = <<>> THEN <<>>
    ELSE IF strtok(Head(lines)) = username THEN RemainingLines(Tail(lines), username)
    ELSE <<Head(lines)>> \o RemainingLines(Tail(lines), username)

\* a remove_user that leaves the temporary file behind when the user is not
\* in the file
remove_user_keeps_tmp(file, username) ==
    IF \E i \in 1..Len(file.lines) : strtok(file.lines[i]) = username
    THEN [ret |-> 0,
          file |-> RenameTmp(OpenTmp(file), RemainingLines(file.lines, username))]
    ELSE [ret |-> 1, file |-> OpenTmp(file)]

\* remove_user: [ret, file]
remove_user(file, username) ==
    IF \E i \in 1..Len(file.lines) : strtok(file.lines[i]) = username
    THEN [ret |-> 0,
          file |-> RenameTmp(OpenTmp(file), RemainingLines(file.lines, username))]
    ELSE [ret |-> 1, file |-> RemoveTmp(OpenTmp(file))]

\* the name of the i-th user of a file of the model
UserName(i) == <<"u">> \o FormatNat(i)

\* a users file with the users 1 .. n, each once
UsersFileOf(n) == [i \in 1..n |-> Entry(UserName(i), <<"0">>)]

\* the users files that the admin tool starts from: none to two users, and
\* one and no user below the limit
AdminFiles ==
    {[lines |-> UsersFileOf(n), tmp |-> FALSE] :
        n \in {0, 1, 2, NUMBER_OF_USERS - 1, NUMBER_OF_USERS}}

\* the names given to the tool: users 1 and 2, a user that no file has, and a
\* name that holds the separator
AdminNames ==
    {UserName(1), UserName(2), UserName(NUMBER_OF_USERS + 1),
     UserName(1) \o <<":", "x">>}

AdminPasswords == {<<"1">>, <<"2">>}

InitAdmin ==
    /\ phase = "boot"
    /\ config = InitConfiguration
    /\ last = NoOp
    /\ ops = 0
    /\ xfer = [at |-> "idle", i |-> 0, pre |-> InitConfiguration]
    /\ view = [seen |-> FALSE, tables |-> Tables(InitConfiguration)]
    /\ users_path \in AdminFiles

AddUser ==
    /\ ops < MaxOps
    /\ ops' = ops + 1
    /\ \E masterkey \in BOOLEAN, username \in AdminNames, password \in AdminPasswords :
         LET Done(res) ==
                 /\ users_path' = res.file
                 /\ last' = [NoOp EXCEPT !.op = "add_user", !.ret = res.ret,
                                         !.payload = Payload(<<"user">>, Chs(username))]
         IN  Done(add_user(users_path, masterkey, username, password))
    /\ UNCHANGED <<phase, config, xfer, view>>

UpdateUser ==
    /\ ops < MaxOps
    /\ ops' = ops + 1
    /\ \E masterkey \in BOOLEAN, username \in AdminNames, password \in AdminPasswords :
         LET Done(res) ==
                 /\ users_path' = res.file
                 /\ last' = [NoOp EXCEPT !.op = "update_user", !.ret = res.ret,
                                         !.failed = IF masterkey THEN "" ELSE "masterkey",
                                         !.payload = Payload(<<"user">>, Chs(username))]
         IN  Done(update_user(users_path, masterkey, username, password))
    /\ UNCHANGED <<phase, config, xfer, view>>

RemoveUser ==
    /\ ops < MaxOps
    /\ ops' = ops + 1
    /\ \E username \in AdminNames :
         LET Done(res) ==
                 /\ users_path' = res.file
                 /\ last' = [NoOp EXCEPT !.op = "remove_user", !.ret = res.ret,
                                         !.payload = Payload(<<"user">>, Chs(username))]
         IN  Done(remove_user(users_path, username))
    /\ UNCHANGED <<phase, config, xfer, view>>

NextAdmin == AddUser \/ UpdateUser \/ RemoveUser

SpecAdmin == InitAdmin /\ [][NextAdmin]_vars

----------------------------------------------------------------------------
(* Properties of the reload, the load and conf set *)

\* the fields that transfer_configuration assigns from the candidate
ReloadableFields ==
    {"host", "metrics", "metrics_cache_max_age", "bridge_cache_max_age", "management",
     "cache", "log_level", "tls", "tls_cert_file", "tls_key_file", "tls_ca_file",
     "metrics_cert_file", "metrics_key_file", "metrics_ca_file", "blocking_timeout",
     "authentication_timeout", "keep_alive", "nodelay", "non_blocking", "backlog"}

\* the scalar fields that transfer_configuration only compares
RestartFields ==
    {"metrics_cache_max_size", "bridge", "bridge_cache_max_size", "bridge_json",
     "bridge_json_cache_max_size", "log_type", "pidfile", "libev", "hugepage",
     "update_process_title", "unix_socket_dir"}

\* the listening port of the metrics and the TLS settings
PortTLSFields ==
    {"metrics", "tls", "tls_cert_file", "tls_key_file", "tls_ca_file",
     "metrics_cert_file", "metrics_key_file", "metrics_ca_file"}

\* what the configuration file says of a server
ServerConfigFields ==
    {"name", "host", "port", "username", "tls_cert_file", "tls_key_file",
     "tls_ca_file", "data", "wal", "extensions_config"}

SameEndpoints(a, b) ==
    /\ a.number_of_endpoints = b.number_of_endpoints
    /\ \A i \in 1..a.number_of_endpoints :
           Slot(a.endpoints, i, ZeroEndpoint) = Slot(b.endpoints, i, ZeroEndpoint)

\* C1 as the specification states it: a reload that reports restart-required
\* has aborted the swap, so that no field of the running configuration has
\* changed (stated here for the fields the transfer assigns).
C1_SwapAborted ==
    [][(last'.op = "reload" /\ last'.ret = 0 /\ last'.diff \cap RestartFields # {}
        /\ last'.r)
       => \A f \in ReloadableFields : config'[f] = config[f]]_vars

\* C1, as the code has it: when the candidate differs from the running
\* configuration in a scalar restart-required field, the reload is not
\* aborted.  It returns 0 with *r = true, every scalar restart-required field
\* keeps its running value, and every field that the transfer assigns takes
\* the value of the candidate.
C1_RestartReportedNotAborted ==
    [][(last'.op = "reload" /\ last'.ret = 0 /\ last'.diff \cap RestartFields # {})
       => /\ last'.r
          /\ \A f \in RestartFields : config'[f] = config[f]
          /\ \A f \in ReloadableFields : config'[f] = last'.cand[f]]_vars

\* a reload whose candidate turned the bridge on and moved the management
\* port: the management port is the candidate's, the bridge is not
C1_Witness ==
    /\ last.op = "reload" /\ last.ret = 0 /\ last.r
    /\ "bridge" \in last.diff /\ "management" \in last.diff
    /\ config.management = last.cand.management
    /\ config.bridge # last.cand.bridge

C4_PortAndTLSNeedRestart ==
    [][(last'.op = "reload" /\ last'.ret = 0 /\ last'.diff \cap PortTLSFields # {})
       => (last'.r /\ \A f \in PortTLSFields : config'[f] = config[f])]_vars

\* C4, as the code has it: the metrics port and the TLS settings are
\* reloadable.  A reload that succeeds sets each of them to the value of the
\* candidate, and reports restart-required only when a scalar
\* restart-required field or the bridge endpoints differ.
C4_PortAndTLSReloaded ==
    [][(last'.op = "reload" /\ last'.ret = 0)
       => /\ \A f \in PortTLSFields : config'[f] = last'.cand[f]
          /\ last'.r => \/ last'.diff \cap RestartFields # {}
                        \/ ~SameEndpoints(config, last'.cand)]_vars

\* a reload whose candidate moved the metrics port and nothing that needs a
\* restart: the port is the candidate's and no restart is reported
C4_Witness ==
    /\ last.op = "reload" /\ last.ret = 0 /\ ~last.r
    /\ "metrics" \in last.diff
    /\ config.metrics = last.cand.metrics

\* C5: after a reload that succeeded, the server table of the running
\* configuration is the candidate's in number_of_servers and, for each server,
\* in name, host, port, user, TLS cert / key / CA files, data directory, WAL
\* directory and extensions.
C5_ServerTableIsCandidate ==
    (last.op = "reload" /\ last.ret = 0)
    => /\ config.number_of_servers = last.cand.number_of_servers
       /\ \A i \in 1..last.cand.number_of_servers : \A f \in ServerConfigFields :
              Slot(config.servers, i, ZeroServer)[f]
                  = Slot(last.cand.servers, i, ZeroServer)[f]

\* C6: neither a reload nor a conf set changes the detected version or the
\* state of a server that is there before and after.
C6_RuntimeStateKept ==
    [][(last'.op \in {"reload", "conf_set"})
       => \A i \in 1..config.number_of_servers, j \in 1..config'.number_of_servers :
              LET before == Slot(config.servers, i, ZeroServer)
                  after == Slot(config'.servers, j, ZeroServer)
              IN  before.name = after.name
                  => (after.version = before.version /\ after.state = before.state)]_vars

\* C7: in every running configuration the server names are pairwise distinct
\* and none of them is pgexporter or all.
C7_ServerNames ==
    phase = "running"
    => /\ \A i, j \in 1..config.number_of_servers :
              i # j => Slot(config.servers, i, ZeroServer).name
                           # Slot(config.servers, j, ZeroServer).name
       /\ \A i \in 1..config.number_of_servers :
              Slot(config.servers, i, ZeroServer).name \notin {"pgexporter", "all"}

\* a running configuration of two servers that a reload put in place
C7_Witness ==
    /\ phase = "running" /\ last.op = "reload" /\ last.ret = 0
    /\ config.number_of_servers = 2

\* C8 as the specification states it: a file with a key that is not
\* recognised, or with a line that is not key = value, makes
\* pgexporter_read_configuration fail or end the process.
C8_UnknownInputFatal ==
    (last.op \in {"load", "reload"} /\ last.unrecognised)
    => (last.failed = "read" \/ last.exited)

\* C8, as the code has it: a key that is not recognised, or a line that is
\* not key = value, is reported with an "Unknown:" warning and skipped;
\* pgexporter_read_configuration goes on with the next line and does not
\* return non-zero for it.
C8_UnknownInputWarned ==
    (last.op \in {"load", "reload"} /\ last.unrecognised /\ ~last.exited)
    => (last.warned > 0 /\ last.failed # "read")

\* a load of a file with such a line that ended with a running configuration
C8_Witness ==
    /\ last.op = "load" /\ last.unrecognised /\ last.warned > 0
    /\ last.ret = 0 /\ phase = "running"

\* C9: a reload returns 0 or 1 to its caller and never ends the process,
\* whatever the candidate file holds.
C9_ReloadReturns ==
    last.op = "reload" => (~last.exited /\ last.ret \in {0, 1} /\ phase = "running")

\* C10: the bridge endpoint table of a running configuration never holds two
\* entries with the same host and the same port.
C10_EndpointsDistinct ==
    phase = "running"
    => \A i, j \in 1..config.number_of_endpoints :
           i # j => Slot(config.endpoints, i, ZeroEndpoint)
                        # Slot(config.endpoints, j, ZeroEndpoint)

\* C3: whenever a reader has read the tables during a transfer, what it saw is
\* the server table and the metric catalog from before the reload, or those
\* that the reload ends with.
C3_ReaderSeesPreOrPost ==
    (xfer.at # "idle" /\ view.seen)
    => \/ view.tables = Tables(xfer.pre)
       \/ view.tables = Tables(transfer_configuration(xfer.pre, last.cand).config)

\* C11: for every token [space][http:// or https://]host:port[/metrics][/][space],
\* as_endpoints stores exactly one entry, with that host and the number of
\* that port, whichever of the optional parts the token has.
C11_TokenStoredOnce ==
    [][\A p \in EndpointParts :
          (last'.op \in {"read_endpoints", "set_endpoints"}
           /\ last'.payload.value.chars = EndpointToken(p))
          => /\ last'.ret = 0
             /\ config'.number_of_endpoints = 1
             /\ Slot(config'.endpoints, 1, ZeroEndpoint)
                    = [host |-> p.host, port |-> atoi(p.port)]]_vars

\* C12 as the specification states it: the value
\* http://h1/metrics, h2:9090/metrics/, h1:9090 is accepted and gives three
\* endpoints, the first distinct from the third.
C12_PortlessAccepted ==
    (last.op \in {"read_endpoints", "set_endpoints"}
     /\ last.payload.value.chars = PortlessList)
    => /\ last.ret = 0
       /\ config.number_of_endpoints = 3
       /\ Slot(config.endpoints, 1, ZeroEndpoint) # Slot(config.endpoints, 3, ZeroEndpoint)

\* C12, as the code has it: a token without a port is a parse error.  For a
\* value that has such a token as_endpoints returns 1 and leaves the endpoint
\* table empty, whatever the other tokens are.
C12_PortlessRejected ==
    (last.op \in {"read_endpoints", "set_endpoints"}
     /\ last.payload.value.chars \in PortlessValues)
    => /\ last.ret = 1
       /\ config.number_of_endpoints = 0
       /\ config.endpoints = <<>>

\* the value of the specification read after a line that had stored endpoints
C12_Witness ==
    /\ last.op = "read_endpoints" /\ ops = 2
    /\ last.payload.value.chars = PortlessList
    /\ last.ret = 1 /\ config.number_of_endpoints = 0

\* the text that reads back a requested value: the number of an integer key,
\* true or false for a boolean key, the text itself for the others
RequestedValue(p) ==
    LET key == p.key[Len(p.key)]
    IN  IF \/ Len(p.key) = 3 /\ key = "port"
           \/ Len(p.key) < 3 /\ key \in {"metrics", "management", "bridge", "bridge_json"}
        THEN Chs(FormatInt(as_int(p.value.chars).val))
        ELSE IF Len(p.key) < 3 /\ key \in {"cache", "tls"}
             THEN Txt(FormatBool(as_bool(p.value.text).val))
             ELSE Txt(p.value.text)

\* C13: a conf set that completes without restart-required has set the key:
\* the new value of the response, read from the running configuration by
\* write_config_value, is the value that was requested.
C13_ConfSetReadsBack ==
    (last.op = "conf_set" /\ last.ret = 0 /\ ~last.r)
    => last.new_value = RequestedValue(last.payload)

\* C14: a configuration that gives TLS material for the metrics and that
\* pgexporter_validate_configuration accepts still has TLS material for the
\* metrics: validation never accepts it with the material cleared.
C14_MetricsTLSEnforced ==
    (last.op \in {"load", "reload", "conf_set"} /\ last.metrics_tls
     /\ last.ret = 0 /\ ~last.exited)
    => \E f \in MetricsTLSKeys : config[f] # ""

\* the metric and the server of the last collect
CollectedMetric == config.prometheus[last.metric]
CollectedServer == config.servers[last.server]

\* C15: the query chosen for a metric and a server is the one with the
\* greatest minimum version among those whose minimum version the server
\* reaches and whose server type fits, and none when there is no such query:
\* pg_stat_database gives the version 10 query on a version 11 server and the
\* version 12 query on a version 12 server, pg_wal_last_received gives nothing
\* on a primary.
C15_GreatestApplicableVariant ==
    last.op = "collect"
    => /\ \A a \in CollectedMetric.pg_root.alts :
              (a.version <= CollectedServer.version
               /\ RoleMatches(CollectedMetric, CollectedServer.state))
              => (last.variant # 0 /\ a.version <= last.variant)
       /\ last.variant # 0
              => /\ last.variant <= CollectedServer.version
                 /\ RoleMatches(CollectedMetric, CollectedServer.state)
                 /\ \E a \in CollectedMetric.pg_root.alts : a.version = last.variant
       /\ (CollectedMetric.tag = "pg_stat_database" /\ CollectedServer.version = 11)
              => last.variant = 10
       /\ (CollectedMetric.tag = "pg_stat_database" /\ CollectedServer.version = 12)
              => last.variant = 12
       /\ (CollectedMetric.tag = "pg_wal_last_received"
           /\ CollectedServer.state = SERVER_PRIMARY)
              => last.variant = 0

\* pg_stat_database collected on a version 12 server with the version 12 query
C15_Witness ==
    /\ last.op = "collect"
    /\ CollectedMetric.tag = "pg_stat_database"
    /\ CollectedServer.version = 12
    /\ last.variant = 12

\* C16 as the specification states it: the query of pg_shmem_allocations,
\* which gives no version, is chosen on every server of version 10 or higher.
C16_DefaultVersion10 ==
    (last.op = "collect" /\ CollectedMetric.tag = "pg_shmem_allocations"
     /\ CollectedServer.version >= 10)
    => last.variant # 0

\* C16, as the catalog has it: a query that gives no version has the
\* top-level version of the catalog file, 13, as its minimum version.  The
\* query of pg_shmem_allocations is chosen on the servers of version 13 or
\* higher and on no other.
C16_DefaultVersionOfFile ==
    (last.op = "collect" /\ CollectedMetric.tag = "pg_shmem_allocations")
    => (last.variant # 0 <=> CollectedServer.version >= YAML_DEFAULT_VERSION)

\* pg_shmem_allocations skipped on a version 12 server
C16_Witness ==
    /\ last.op = "collect"
    /\ CollectedMetric.tag = "pg_shmem_allocations"
    /\ CollectedServer.version = 12
    /\ last.variant = 0

\* C17: a conf set that answers restart-required has not applied the change:
\* the requested key has the value it had before the call, for the scalar
\* restart-required keys and for bridge_endpoints.
C17_RestartRequiredNotApplied ==
    [][(last'.op = "conf_set" /\ last'.ret = 0 /\ last'.r)
       => /\ last'.payload.key = <<"bridge_endpoints">> => SameEndpoints(config, config')
          /\ (Len(last'.payload.key) = 1 /\ last'.payload.key[1] \in RestartFields)
                 => config'[last'.payload.key[1]] = config[last'.payload.key[1]]]_vars

\* C18: every failing pgexporter_conf_set returns 1, answers with the error
\* code of its case (NOREQUEST without a request, NOCONFIG_KEY_OR_VALUE without
\* key or value, CONF_SET_ERROR otherwise) and leaves the running
\* configuration as it was before the call.
C18_FailedConfSetChangesNothing ==
    [][(last'.op = "conf_set" /\ last'.ret # 0)
       => /\ last'.ret = 1
          /\ last'.ec = (IF ~last'.payload.request THEN "CONF_SET_NOREQUEST"
                         ELSE IF ~last'.payload.haskey \/ ~last'.payload.hasvalue
                              THEN "CONF_SET_NOCONFIG_KEY_OR_VALUE"
                         ELSE "CONF_SET_ERROR")
          /\ config' = config]_vars

\* the metric catalog of a configuration: the metrics in use
Catalog(cfg) == SubSeq(cfg.prometheus, 1, cfg.number_of_metrics)

\* C20: a conf set never changes the metric catalog: after the call, successful
\* or failed, every metric has the tag, collector, sort, server type and query
\* trees it had before the call.
C20_ConfSetKeepsCatalog ==
    [][last'.op = "conf_set" => Catalog(config') = Catalog(config)]_vars

\* a configuration in which bridge JSON is enabled only with the bridge and a
\* cache to serve it from
BridgeJsonServable(cfg) ==
    cfg.bridge_json # -1 => (cfg.bridge # -1 /\ cfg.bridge_json_cache_max_size > 0)

\* C19: in every configuration that validation accepted at load or at reload,
\* and in the running configuration after any reload and conf set, bridge JSON
\* enabled implies the bridge enabled and a bridge JSON cache size above zero.
C19_BridgeJsonNeedsBridgeAndCache ==
    /\ phase = "running" => BridgeJsonServable(config)
    /\ (last.op \in {"load", "reload"} /\ last.ret = 0 /\ ~last.exited /\ last.failed = "")
           => BridgeJsonServable(last.cand)

\* bridge JSON is enabled in the running configuration, and a conf set has
\* just tried to drop its cache or a reload has just tried to drop the bridge
C19_Witness ==
    /\ phase = "running"
    /\ config.bridge_json # -1
    /\ \/ /\ last.op = "conf_set"
          /\ last.payload.key = <<"bridge_json_cache_max_size">>
       \/ /\ last.op = "reload"
          /\ last.ret = 0
          /\ last.cand.bridge = -1

\* C21: in every running configuration, after a validated load and any
\* reloads and conf sets, the metrics endpoint or the bridge endpoint is
\* defined.
C21_MetricsOrBridge ==
    phase = "running" => ~(config.metrics = -1 /\ config.bridge = -1)

\* C22: in every running configuration, after a validated load and any
\* reloads and conf sets, the user name of every server is the user name of
\* an entry of the credential table.
C22_ServerUsersKnown ==
    phase = "running"
    => \A i \in 1..config.number_of_servers :
           \E j \in 1..config.number_of_users :
               Slot(config.servers, i, ZeroServer).username = config.users[j].username

\* the letters that as_seconds and as_bytes take as a unit
SecondsUnits == {"s", "S", "m", "M", "h", "H", "d", "D", "w", "W"}
BytesUnits == {"b", "B", "k", "K", "m", "M", "g", "G"}

\* a value of digits and at most one unit letter
OneUnit(s, units) ==
    /\ \A i \in 1..Len(s) : s[i] \in Digits \cup units
    /\ Cardinality({i \in 1..Len(s) : s[i] \in units}) <= 1

\* a value of digits and a K, M or G directly followed by a B
UnitAndB(s) ==
    /\ \A i \in 1..Len(s) : s[i] \in Digits \cup BytesUnits
    /\ \E i \in 1..(Len(s) - 1) :
           /\ s[i] \in BytesUnits \ {"b", "B"}
           /\ s[i + 1] \in {"b", "B"}
           /\ \A j \in (1..Len(s)) \ {i, i + 1} : s[j] \in Digits

\* C23: as_seconds and as_bytes reject every value that holds a character
\* other than digits and one accepted unit suffix (with a B allowed after K, M,
\* G for as_bytes): they return 1 and store the default.
C23_AlienCharsRejected ==
    /\ (last.op = "as_seconds" /\ ~OneUnit(last.payload.value.chars, SecondsUnits))
           => (last.ret = 1 /\ last.parsed = 300)
    /\ (last.op = "as_bytes" /\ ~OneUnit(last.payload.value.chars, BytesUnits)
                             /\ ~UnitAndB(last.payload.value.chars))
           => (last.ret = 1 /\ last.parsed = PROMETHEUS_DEFAULT_BRIDGE_JSON_CACHE_SIZE)

\* the user names of the lines of a users file, as its readers take them
UserNames(lines) == [i \in 1..Len(lines) |-> strtok(lines[i])]

\* C24: starting from a users file of at most NUMBER_OF_USERS entries, the
\* file has at most NUMBER_OF_USERS entries after any add_user, update_user
\* and remove_user, and pgexporter_read_users_configuration does not answer 3.
C24_AtMostNumberOfUsers ==
    /\ Len(users_path.lines) <= NUMBER_OF_USERS
    /\ pgexporter_read_users_configuration(
           InitConfiguration,
           [exists |-> TRUE, names |-> UserNames(users_path.lines)], TRUE).ret # 3

\* C25: every user name occurs in at most one line of the users file after
\* any add_user, update_user and remove_user, and an add_user of a name that
\* the file has fails without appending.
C25_UserNamesUnique ==
    [][/\ \A i, j \in 1..Len(users_path'.lines) :
              i # j => strtok(users_path'.lines[i]) # strtok(users_path'.lines[j])
       /\ (/\ last'.op = "add_user"
           /\ \E i \in 1..Len(users_path.lines) :
                  strtok(users_path.lines[i]) = last'.payload.value.chars)
              => (last'.ret = 1 /\ users_path' = users_path)]_vars

\* the lines of the users other than the named one, in their order
OtherLines(lines, username) == SelectSeq(lines, LAMBDA l : strtok(l) # username)

====
